---------------------------- MODULE Spec2Model ----------------------------
(***************************************************************************)
(* rivoli-bot: a daily bicycle-counter series (CountHistory), the event    *)
(* computers run on it for a target day, the election of the most          *)
(* interesting event, and the composition of the message (build_tweet).    *)
(*                                                                         *)
(* Dates are proleptic Gregorian ordinals (datetime.date.toordinal), so    *)
(* that timedelta arithmetic and comparisons are integer arithmetic; the   *)
(* calendar fields are decoded as datetime does.  Strings are TLA+ strings *)
(* (Len is len, \o is concatenation).  Scores are hundredths (0.95 is 95). *)
(* An exception is a record [type |-> "ValueError", ...] returned in place *)
(* of the value; Try propagates it to the caller as Python does.           *)
(***************************************************************************)
EXTENDS Integers, Sequences, FiniteSets, TLC

VARIABLES
    rng,            \* state of the module-level generator of `random`
    construction,   \* the last call CountHistory(days): its argument and what it raised
    count_history,  \* the CountHistory the caller holds, or None
    run,            \* the last call of build_tweet: arguments, generator state, outcome
    rerun           \* a second call, compared with the first: whether the generator
                    \* state and the outcome are the same, or the other series it was given

vars == <<rng, construction, count_history, run, rerun>>

-----------------------------------------------------------------------------
(* Bounds of the model *)

\* the longest list of DayCount given to CountHistory
MaxLen == 3

\* the longest history of a DayHistoricalRankEvent that is scored
MaxNbDays == 20

\* the longest history of a DayHistoricalRankEvent whose message is written
MaxMessageDays == 160

\* the longest series that starts on the last day of a month
MaxLongLen == 30

\* the number of states of the generator
NbRngStates == 3

-----------------------------------------------------------------------------
(* Python values *)

None == [type |-> "None"]

ValueError(message) == [type |-> "ValueError", message |-> message]

KeyError == [type |-> "KeyError"]

IndexError == [type |-> "IndexError"]

IsError(x) == x.type \in {"ValueError", "KeyError", "IndexError"}

\* a local variable: body(x), with x evaluated once
Let(x, body(_)) == body(x)

\* a call that may raise: the exception x propagates, a value goes on into body
Try(x, body(_)) == IF IsError(x) THEN x ELSE body(x)

\* the value of a call that returns an int, a bool, a str or a list
Returns(value) == [type |-> "value", value |-> value]

Range(s) == {s[i] : i \in 1..Len(s)}

RECURSIVE Sum(_)
Sum(s) == IF s = <<>> THEN 0 ELSE Head(s) + Sum(Tail(s))

Max(S) == CHOOSE x \in S : \A y \in S : y <= x

Min(S) == CHOOSE x \in S : \A y \in S : x <= y

Digits == <<"0", "1", "2", "3", "4", "5", "6", "7", "8", "9">>

\* str(n) of a non-negative int
RECURSIVE Str(_)
Str(n) == IF n < 10 THEN Digits[n + 1] ELSE Str(n \div 10) \o Digits[(n % 10) + 1]

\* the %d and %m fields of strftime: two digits, zero-padded
Pad2(n) == IF n < 10 THEN "0" \o Str(n) ELSE Str(n)

-----------------------------------------------------------------------------
(* datetime.date *)

IsLeap(y) == (y % 4 = 0 /\ y % 100 # 0) \/ y % 400 = 0

DaysInMonth(y, m) ==
    IF m = 2 THEN (IF IsLeap(y) THEN 29 ELSE 28)
    ELSE IF m \in {4, 6, 9, 11} THEN 30 ELSE 31

DaysBeforeYear(y) ==
    (y - 1) * 365 + ((y - 1) \div 4) - ((y - 1) \div 100) + ((y - 1) \div 400)

RECURSIVE DaysBeforeMonth(_, _)
DaysBeforeMonth(y, m) ==
    IF m = 1 THEN 0 ELSE DaysBeforeMonth(y, m - 1) + DaysInMonth(y, m - 1)

\* date(y, m, d)
Date(y, m, d) == DaysBeforeYear(y) + DaysBeforeMonth(y, m) + d

\* the year after n400 cycles of 400 years, n100 of 100, n4 of 4 and n1 years: the
\* last day of a cycle of 4 or of 400 years belongs to the year before
YearAfterCycles(n400, n100, n4, n1) ==
    n400 * 400 + n100 * 100 + n4 * 4 + n1 + (IF n1 = 4 \/ n100 = 4 THEN 0 ELSE 1)

\* the year of the day that follows n0 days
YearAfter(n0) ==
    YearAfterCycles(n0 \div 146097,
                    (n0 % 146097) \div 36524,
                    ((n0 % 146097) % 36524) \div 1461,
                    (((n0 % 146097) % 36524) % 1461) \div 365)

\* date.year
YearOf(n) == YearAfter(n - 1)

\* the month and the day of the rest-th day of year y, from month m on
RECURSIVE MonthAndDay(_, _, _)
MonthAndDay(y, m, rest) ==
    IF rest <= DaysInMonth(y, m) THEN [month |-> m, day |-> rest]
    ELSE MonthAndDay(y, m + 1, rest - DaysInMonth(y, m))

InYear(y, n) == MonthAndDay(y, 1, n - DaysBeforeYear(y))

\* date.month
MonthOf(n) == InYear(YearOf(n), n).month

\* date.day
DayOf(n) == InYear(YearOf(n), n).day

\* date_.strftime('%d/%m/%Y'), for a year of four digits
FormatDmy(y, md) == Pad2(md.day) \o "/" \o Pad2(md.month) \o "/" \o Str(y)

DmyInYear(y, n) == FormatDmy(y, InYear(y, n))

date_to_dmy(date_) == DmyInYear(YearOf(date_), date_)

-----------------------------------------------------------------------------
(* models.py *)

DayCount(date_, count) == [date |-> date_, count |-> count]

\* a variant that only asks the dates to increase: date_before >= date_after raises
_check_increasing(days) ==
    IF \E i \in 1..(Len(days) - 1) : days[i].date >= days[i + 1].date
    THEN ValueError("Counter not increasing and continuous")
    ELSE None

\* the first pair of zip(days, days[1:]) that is not one day apart raises
RECURSIVE _check_continuous_and_increasing(_)
_check_continuous_and_increasing(days) ==
    IF Len(days) < 2 THEN None
    ELSE IF days[1].date # days[2].date - 1
         THEN ValueError("Counter not increasing and continuous")
         ELSE _check_continuous_and_increasing(Tail(days))

\* {count.date: count.count for count in daily_counts}: the last entry of a date wins
DayToCount(daily_counts) ==
    [d \in {daily_counts[i].date : i \in 1..Len(daily_counts)} |->
        daily_counts[Max({i \in 1..Len(daily_counts) : daily_counts[i].date = d})].count]

\* CountHistory(daily_counts): __post_init__ checks, then builds day_to_count
CountHistory(daily_counts) ==
    Try(_check_continuous_and_increasing(daily_counts), LAMBDA checked :
        [type |-> "CountHistory",
         daily_counts |-> daily_counts,
         day_to_count |-> DayToCount(daily_counts)])

\* a variant whose limit is off by one
Tweet_off_by_one(content) ==
    IF Len(content) > 281
    THEN ValueError("Tweet content must contain less than 280 characters.")
    ELSE [type |-> "Tweet", content |-> content]

Tweet(content) ==
    IF Len(content) > 280
    THEN ValueError("Tweet content must contain less than 280 characters.")
    ELSE [type |-> "Tweet", content |-> content]

Hashtag(content) == [type |-> "Hashtag", content |-> content]

Month(month, year) == [month |-> month, year |-> year]

-----------------------------------------------------------------------------
(* models.py, utils.py: CSV and JSON.  A text is the sequence of its characters *)

\* str(n) of a non-negative int
RECURSIVE Chars(_)
Chars(n) == IF n < 10 THEN <<Digits[n + 1]>> ELSE Append(Chars(n \div 10), Digits[(n % 10) + 1])

\* the %m and %d fields of strftime
Pad2Chars(n) == IF n < 10 THEN <<"0">> \o Chars(n) ELSE Chars(n)

\* date_.strftime('%Y/%m/%d'): the year as the C library writes it, without padding
date_to_ymd(date_) ==
    Chars(YearOf(date_)) \o <<"/">> \o Pad2Chars(MonthOf(date_))
        \o <<"/">> \o Pad2Chars(DayOf(date_))

\* sep.join(parts)
RECURSIVE Join(_, _)
Join(sep, parts) ==
    IF parts = <<>> THEN <<>>
    ELSE IF Len(parts) = 1 THEN parts[1]
    ELSE parts[1] \o <<sep>> \o Join(sep, Tail(parts))

RECURSIVE SplitLoop(_, _, _, _)
SplitLoop(text, sep, parts, part) ==
    IF text = <<>> THEN Append(parts, part)
    ELSE IF Head(text) = sep THEN SplitLoop(Tail(text), sep, Append(parts, part), <<>>)
    ELSE SplitLoop(Tail(text), sep, parts, Append(part, Head(text)))

\* text.split(sep): one part more than there are separators, so [''] for ''
Split(text, sep) == SplitLoop(text, sep, <<>>, <<>>)

IsDigits(text) == text # <<>> /\ \A i \in 1..Len(text) : text[i] \in Range(Digits)

RECURSIVE Number(_)
Number(text) ==
    IF text = <<>> THEN 0
    ELSE 10 * Number(SubSeq(text, 1, Len(text) - 1))
            + (CHOOSE d \in 0..9 : Digits[d + 1] = text[Len(text)])

\* int(text), for a text without sign or blanks
int(text) ==
    IF IsDigits(text) THEN Returns(Number(text))
    ELSE ValueError("invalid literal for int() with base 10")

\* the fields of '%Y/%m/%d': four digits, then one or two, then one or two, and
\* date(year, month, day) of them
ParsedYmd(fields) ==
    IF \/ Len(fields) # 3
       \/ \E i \in 1..Len(fields) : ~IsDigits(fields[i])
    THEN ValueError("time data does not match format")
    ELSE IF \/ Len(fields[1]) # 4 \/ Len(fields[2]) > 2 \/ Len(fields[3]) > 2
            \/ Number(fields[1]) < 1 \/ Number(fields[2]) \notin 1..12
         THEN ValueError("time data does not match format")
         ELSE IF Number(fields[3])
                    \notin 1..DaysInMonth(Number(fields[1]), Number(fields[2]))
              THEN ValueError("day is out of range for month")
              ELSE Returns(Date(Number(fields[1]), Number(fields[2]), Number(fields[3])))

\* datetime.strptime(str_, '%Y/%m/%d').date()
parse_ymd(str_) == ParsedYmd(Split(str_, "/"))

\* DayCount.to_csv
DayCount_to_csv(day_count) == date_to_ymd(day_count.date) \o <<",">> \o Chars(day_count.count)

\* date_str, count_str = fields, then DayCount(parse_ymd(date_str), int(count_str))
DayCountOfFields(fields) ==
    IF Len(fields) < 2 THEN ValueError("not enough values to unpack (expected 2, got 1)")
    ELSE IF Len(fields) > 2 THEN ValueError("too many values to unpack (expected 2)")
    ELSE Try(parse_ymd(fields[1]), LAMBDA date_ :
            Try(int(fields[2]), LAMBDA count :
                Returns(DayCount(date_.value, count.value))))

\* DayCount.from_csv
DayCount_from_csv(str_) == DayCountOfFields(Split(str_, ","))

\* DayCount.to_json
DayCount_to_json(day_count) ==
    [date |-> date_to_ymd(day_count.date), count |-> day_count.count]

\* DayCount.from_json
DayCount_from_json(dict_) ==
    Try(parse_ymd(dict_.date), LAMBDA date_ : Returns(DayCount(date_.value, dict_.count)))

\* CountHistory([... for x in ...]): the exception of the first x that raises or,
\* when none does, the CountHistory of the list
CountHistoryOfParsed(parsed) ==
    IF \E i \in 1..Len(parsed) : IsError(parsed[i])
    THEN parsed[Min({i \in 1..Len(parsed) : IsError(parsed[i])})]
    ELSE CountHistory([i \in 1..Len(parsed) |-> parsed[i].value])

\* CountHistory.to_csv
CountHistory_to_csv(count_history_) ==
    Join("\n", [i \in 1..Len(count_history_.daily_counts) |->
                    DayCount_to_csv(count_history_.daily_counts[i])])

\* CountHistory.from_csv
CountHistory_from_csv(str_) ==
    CountHistoryOfParsed([i \in 1..Len(Split(str_, "\n")) |->
                            DayCount_from_csv(Split(str_, "\n")[i])])

\* CountHistory.to_json
CountHistory_to_json(count_history_) ==
    [daily_counts |-> [i \in 1..Len(count_history_.daily_counts) |->
                            DayCount_to_json(count_history_.daily_counts[i])]]

\* CountHistory.from_json
CountHistory_from_json(dict_) ==
    CountHistoryOfParsed([i \in 1..Len(dict_.daily_counts) |->
                            DayCount_from_json(dict_.daily_counts[i])])

-----------------------------------------------------------------------------
(* A dict is the sequence of its items, in insertion order *)

Keys(dict) == {dict[i].key : i \in 1..Len(dict)}

\* dict[key], KeyError when the key is absent
Get(dict, key) ==
    IF key \in Keys(dict)
    THEN Returns(dict[CHOOSE i \in 1..Len(dict) : dict[i].key = key].value)
    ELSE KeyError

\* dict.values()
Values(dict) == [i \in 1..Len(dict) |-> dict[i].value]

\* result[key].append(value), after result[key] = [] for a new key
AppendAt(dict, key, value) ==
    IF key \in Keys(dict)
    THEN [i \in 1..Len(dict) |->
            IF dict[i].key = key
            THEN [key |-> key, value |-> Append(dict[i].value, value)]
            ELSE dict[i]]
    ELSE Append(dict, [key |-> key, value |-> <<value>>])

\* {key: sum(counts) for key, counts in dict.items()}
SumValues(dict) == [i \in 1..Len(dict) |-> [key |-> dict[i].key, value |-> Sum(dict[i].value)]]

\* list(count_history.day_to_count.values()): one value per date, in insertion order
RECURSIVE DayToCountValues(_, _)
DayToCountValues(daily_counts, day_to_count) ==
    IF daily_counts = <<>> THEN <<>>
    ELSE (IF \E i \in 2..Len(daily_counts) : daily_counts[i].date = daily_counts[1].date
          THEN <<>>
          ELSE <<day_to_count[daily_counts[1].date]>>)
         \o DayToCountValues(Tail(daily_counts), day_to_count)

AllCounts(count_history_) ==
    DayToCountValues(count_history_.daily_counts, count_history_.day_to_count)

-----------------------------------------------------------------------------
(* compute.py: queries on a CountHistory *)

\* a variant that falls back on the count of the last day of the series
_get_count_or_last(day, count_history_) ==
    IF day \in DOMAIN count_history_.day_to_count
    THEN Returns(count_history_.day_to_count[day])
    ELSE IF count_history_.daily_counts = <<>>
         THEN ValueError("Day not found in count_history.")
         ELSE Returns(count_history_.daily_counts[Len(count_history_.daily_counts)].count)

\* the message of the ValueError is kept without the day it names
_safe_get_count(day, count_history_) ==
    IF day \notin DOMAIN count_history_.day_to_count
    THEN ValueError("Day not found in count_history.")
    ELSE Returns(count_history_.day_to_count[day])

\* a variant that compares with the counts of the year of the day only
_day_is_maximum_of_its_year(day, count_history_) ==
    Try(_safe_get_count(day, count_history_), LAMBDA day_count :
        Returns(day_count.value =
                    Max({count_history_.daily_counts[i].count :
                            i \in {j \in 1..Len(count_history_.daily_counts) :
                                    YearOf(count_history_.daily_counts[j].date) = YearOf(day)}})))

_day_is_absolute_maximum(day, count_history_) ==
    Try(_safe_get_count(day, count_history_), LAMBDA day_count :
        Returns(day_count.value = Max(Range(AllCounts(count_history_)))))

\* the position at which insertion keeps a descending list descending
RECURSIVE InsertDesc(_, _)
InsertDesc(x, sorted) ==
    IF sorted = <<>> THEN <<x>>
    ELSE IF x >= Head(sorted) THEN <<x>> \o sorted
    ELSE <<Head(sorted)>> \o InsertDesc(x, Tail(sorted))

\* sorted(values, reverse=True)
RECURSIVE SortedReverse(_)
SortedReverse(values) ==
    IF values = <<>> THEN <<>> ELSE InsertDesc(Head(values), SortedReverse(Tail(values)))

\* the first rank (from 0) of enumerate(sorted_values) whose value is target
RECURSIVE FirstRank(_, _, _)
FirstRank(target, sorted_values, rank) ==
    IF sorted_values = <<>> THEN ValueError("target not found in values.")
    ELSE IF Head(sorted_values) = target THEN Returns(rank)
    ELSE FirstRank(target, Tail(sorted_values), rank + 1)

\* a variant that gives tied values their worst index: the last rank of target
_pessimistic_rank(target, values) ==
    IF \E i \in 1..Len(values) : values[i] = target
    THEN Returns(Cardinality({i \in 1..Len(values) : values[i] >= target}) - 1)
    ELSE ValueError("target not found in values.")

_optimistic_rank(target, values) == FirstRank(target, SortedReverse(values), 0)

_day_rank(day, count_history_) ==
    Try(_safe_get_count(day, count_history_), LAMBDA day_count :
        _optimistic_rank(day_count.value, AllCounts(count_history_)))

\* a variant that takes the 28th and the days after it for the last day
_day_is_day_28_or_later(day) == DayOf(day) >= 28

_day_is_last_day_of_month(day) == DayOf(day + 1) = 1

_day_is_last_day_of_year(day) == DayOf(day) = 31 /\ MonthOf(day) = 12

MonthInYear(y, n) == Month(InYear(y, n).month, y)

_get_month(day) == MonthInYear(YearOf(day), day)

\* len(str(number))
RECURSIVE NbDigits(_)
NbDigits(number) == IF number < 10 THEN 1 ELSE 1 + NbDigits(number \div 10)

\* set(str(number))
RECURSIVE DigitSet(_)
DigitSet(number) ==
    IF number < 10 THEN {number} ELSE {number % 10} \cup DigitSet(number \div 10)

RECURSIVE Pow10(_)
Pow10(k) == IF k = 0 THEN 1 ELSE 10 * Pow10(k - 1)

\* a variant in which two identical digits are enough
IsFunny_two_digits(number, nb_digits) ==
    IF Cardinality(DigitSet(number)) = 1 /\ nb_digits >= 2 THEN TRUE
    ELSE IF number % Pow10(nb_digits - 1) = 0 THEN TRUE
    ELSE FALSE

IsFunny(number, nb_digits) ==
    IF Cardinality(DigitSet(number)) = 1 /\ nb_digits >= 3 THEN TRUE
    ELSE IF number % Pow10(nb_digits - 1) = 0 THEN TRUE
    ELSE FALSE

_number_is_funny(number) == IsFunny(number, NbDigits(number))

RECURSIVE _group_by_month_loop(_, _)
_group_by_month_loop(days, result) ==
    IF days = <<>> THEN result
    ELSE _group_by_month_loop(Tail(days),
                              AppendAt(result, _get_month(Head(days).date), Head(days).count))

_group_by_month(count_history_) == _group_by_month_loop(count_history_.daily_counts, <<>>)

RECURSIVE _group_by_year_loop(_, _)
_group_by_year_loop(days, result) ==
    IF days = <<>> THEN result
    ELSE _group_by_year_loop(Tail(days),
                             AppendAt(result, YearOf(Head(days).date), Head(days).count))

_group_by_year(count_history_) == _group_by_year_loop(count_history_.daily_counts, <<>>)

_get_month_to_count(count_history_) == SumValues(_group_by_month(count_history_))

_get_year_to_count(count_history_) == SumValues(_group_by_year(count_history_))

-----------------------------------------------------------------------------
(* compute.py: the events *)

HistoricalRecordEvent == [type |-> "HistoricalRecordEvent"]

MonthRecordEvent(day) == [type |-> "MonthRecordEvent", day |-> day]

\* __post_init__ raises when rank >= among_nb_days
DayHistoricalRankEvent(rank, among_nb_days) ==
    IF rank >= among_nb_days
    THEN ValueError("rank must be strictly smaller than total nb days")
    ELSE [type |-> "DayHistoricalRankEvent", rank |-> rank, among_nb_days |-> among_nb_days]

MonthSummaryEvent(month, month_count, month_rank) ==
    [type |-> "MonthSummaryEvent", month |-> month,
     month_count |-> month_count, month_rank |-> month_rank]

YearSummaryEvent(year, year_count, year_rank) ==
    [type |-> "YearSummaryEvent", year |-> year,
     year_count |-> year_count, year_rank |-> year_rank]

YearTotalEvent(year_total, day) ==
    [type |-> "YearTotalEvent", year_total |-> year_total, day |-> day]

MonthTotalEvent(month_total, day) ==
    [type |-> "MonthTotalEvent", month_total |-> month_total, day |-> day]

HistoricalTotalEvent(historical_total) ==
    [type |-> "HistoricalTotalEvent", historical_total |-> historical_total]

MonthRecordEvent_default_score(event) ==
    IF DayOf(event.day) >= 15 THEN 80
    ELSE IF DayOf(event.day) <= 5 THEN 0
    ELSE 50

\* a variant with strict comparisons: rank / among_nb_days < 0.05 and < 0.3
DayHistoricalRankEvent_strict_score(event) ==
    IF 20 * event.rank < event.among_nb_days THEN 80
    ELSE IF 10 * event.rank < 3 * event.among_nb_days THEN 50
    ELSE 0

\* rank / among_nb_days <= 0.05 and <= 0.3, on integers
DayHistoricalRankEvent_default_score(event) ==
    IF 20 * event.rank <= event.among_nb_days THEN 80
    ELSE IF 10 * event.rank <= 3 * event.among_nb_days THEN 50
    ELSE 0

\* a variant that tests the total before day <= 4
YearTotalScore_funny_first(year_total, day_of_month) ==
    IF day_of_month = 1 THEN 0
    ELSE IF _number_is_funny(year_total) THEN 75
    ELSE IF day_of_month <= 4 THEN 40
    ELSE 50

YearTotalScore(year_total, day_of_month) ==
    IF day_of_month = 1 THEN 0
    ELSE IF day_of_month <= 4 THEN 40
    ELSE IF _number_is_funny(year_total) THEN 75
    ELSE 50

YearTotalEvent_default_score(event) == YearTotalScore(event.year_total, DayOf(event.day))

MonthTotalScore(month_total, day_of_month) ==
    IF day_of_month = 1 THEN 0
    ELSE IF _number_is_funny(month_total) THEN 75
    ELSE IF day_of_month <= 4 THEN 40
    ELSE 50

MonthTotalEvent_default_score(event) == MonthTotalScore(event.month_total, DayOf(event.day))

\* a variant that scores only the funny totals
HistoricalTotalEvent_funny_score(event) ==
    IF _number_is_funny(event.historical_total) THEN 75 ELSE 0

HistoricalTotalEvent_default_score(event) ==
    IF _number_is_funny(event.historical_total) THEN 75 ELSE 50

\* a variant in which YearSummaryEvent has the score of MonthSummaryEvent
_score_event_same_summaries(event) ==
    CASE event.type = "HistoricalRecordEvent" -> 100
      [] event.type = "MonthRecordEvent" -> MonthRecordEvent_default_score(event)
      [] event.type = "DayHistoricalRankEvent" -> DayHistoricalRankEvent_default_score(event)
      [] event.type = "MonthSummaryEvent" -> 95
      [] event.type = "YearSummaryEvent" -> 95
      [] event.type = "YearTotalEvent" -> YearTotalEvent_default_score(event)
      [] event.type = "MonthTotalEvent" -> MonthTotalEvent_default_score(event)
      [] event.type = "HistoricalTotalEvent" -> HistoricalTotalEvent_default_score(event)

\* event.default_score(), in hundredths
_score_event(event) ==
    CASE event.type = "HistoricalRecordEvent" -> 100
      [] event.type = "MonthRecordEvent" -> MonthRecordEvent_default_score(event)
      [] event.type = "DayHistoricalRankEvent" -> DayHistoricalRankEvent_default_score(event)
      [] event.type = "MonthSummaryEvent" -> 95
      [] event.type = "YearSummaryEvent" -> 96
      [] event.type = "YearTotalEvent" -> YearTotalEvent_default_score(event)
      [] event.type = "MonthTotalEvent" -> MonthTotalEvent_default_score(event)
      [] event.type = "HistoricalTotalEvent" -> HistoricalTotalEvent_default_score(event)

month_to_french_word(month) ==
    <<"Janvier", "Février", "Mars", "Avril", "Mai", "Juin", "Juillet", "Août",
      "Septembre", "Octobre", "Novembre", "Décembre">>[month]

_month_to_french(month) == month_to_french_word(month.month) \o " " \o Str(month.year)

_build_french_ordinal(rank) == IF rank = 0 THEN "" ELSE Str(rank + 1) \o "ème "

\* a variant that rounds down: int(floor(float_ * 20) * 5)
_round_down_to_twentieth(num, den) == ((20 * num) \div den) * 5

\* int(ceil(float_ * 20) * 5) of the fraction num / den, between 0 and 1
_round_to_twentieth(num, den) == ((20 * num + den - 1) \div den) * 5

\* str_[0].upper() + str_[1:] of the string prefix + rest: a prefix, when there is
\* one, starts with a digit, which upper() keeps; rest starts with the letter m
_capitalize_first_letter(prefix, rest) ==
    IF prefix # "" THEN prefix \o rest
    ELSE IF rest = "meilleur jour historique." THEN "Meilleur jour historique."
    ELSE rest

DayHistoricalRankEvent_default_message(event) ==
    IF event.rank <= 10
    THEN _capitalize_first_letter(_build_french_ordinal(event.rank), "meilleur jour historique.")
    ELSE "Top " \o Str(_round_to_twentieth(event.rank + 1, event.among_nb_days)) \o "%."

MonthSummaryEvent_default_message(event) ==
    _month_to_french(event.month) \o " : " \o _build_french_ordinal(event.month_rank)
        \o "meilleur mois de l'histoire avec " \o Str(event.month_count) \o " passages."

YearSummaryEvent_default_message(event) ==
    Str(event.year) \o " : " \o _build_french_ordinal(event.year_rank)
        \o "meilleure année de l'histoire avec " \o Str(event.year_count) \o " passages."

YearTotalEvent_default_message(event) ==
    Str(event.year_total) \o " passages depuis le début de l'année."

MonthTotalEvent_default_message(event) ==
    Str(event.month_total) \o " passages depuis le début du mois."

HistoricalTotalEvent_default_message(event) ==
    Str(event.historical_total) \o " passages depuis l'installation du compteur."

\* event.default_message()
_event_to_fact(event) ==
    CASE event.type = "HistoricalRecordEvent" -> "Record historique !"
      [] event.type = "MonthRecordEvent" -> "Record du mois !"
      [] event.type = "DayHistoricalRankEvent" -> DayHistoricalRankEvent_default_message(event)
      [] event.type = "MonthSummaryEvent" -> MonthSummaryEvent_default_message(event)
      [] event.type = "YearSummaryEvent" -> YearSummaryEvent_default_message(event)
      [] event.type = "YearTotalEvent" -> YearTotalEvent_default_message(event)
      [] event.type = "MonthTotalEvent" -> MonthTotalEvent_default_message(event)
      [] event.type = "HistoricalTotalEvent" -> HistoricalTotalEvent_default_message(event)

-----------------------------------------------------------------------------
(* compute.py: the event computers *)

\* the summary of dict[key]: its value and the optimistic rank of it among the values
Summary(dict, key, event(_, _)) ==
    Try(Get(dict, key), LAMBDA count :
    Try(_optimistic_rank(count.value, Values(dict)), LAMBDA rank :
        event(count.value, rank.value)))

_extract_month_event(day, count_history_) ==
    Let(_get_month(day), LAMBDA month :
        Summary(_get_month_to_count(count_history_), month,
                LAMBDA month_count, rank : MonthSummaryEvent(month, month_count, rank)))

_extract_year_event(day, count_history_) ==
    Let(YearOf(day), LAMBDA year :
        Summary(_get_year_to_count(count_history_), year,
                LAMBDA year_count, rank : YearSummaryEvent(year, year_count, rank)))

\* a variant that asks the count of the day to exceed every other count
_historical_record_strict(day, count_history_) ==
    Try(_safe_get_count(day, count_history_), LAMBDA day_count :
        IF \A i \in 1..Len(count_history_.daily_counts) :
                \/ count_history_.daily_counts[i].date = day
                \/ count_history_.daily_counts[i].count < day_count.value
        THEN HistoricalRecordEvent ELSE None)

_historical_record(day, count_history_) ==
    Try(_day_is_absolute_maximum(day, count_history_), LAMBDA is_maximum :
        IF is_maximum.value THEN HistoricalRecordEvent ELSE None)

\* a variant that counts the days before the day
_get_day_rank_among_days_before(day, count_history_) ==
    Try(_day_rank(day, count_history_), LAMBDA historical_rank :
        DayHistoricalRankEvent(historical_rank.value, Len(count_history_.daily_counts) - 1))

_get_day_rank(day, count_history_) ==
    Try(_day_rank(day, count_history_), LAMBDA historical_rank :
        DayHistoricalRankEvent(historical_rank.value, Len(count_history_.daily_counts)))

_get_month_summary(day, count_history_) ==
    IF _day_is_last_day_of_month(day) THEN _extract_month_event(day, count_history_) ELSE None

_get_year_summary(day, count_history_) ==
    IF _day_is_last_day_of_year(day) THEN _extract_year_event(day, count_history_) ELSE None

\* sum(count_history.day_to_count.values())
_extract_total_count_event(day, count_history_) ==
    HistoricalTotalEvent(Sum(AllCounts(count_history_)))

_extract_month_total_count_event(day, count_history_) ==
    Try(Get(_get_month_to_count(count_history_), _get_month(day)), LAMBDA month_total :
        MonthTotalEvent(month_total.value, day))

\* a variant that sums the counts of every year
_extract_year_total_count_event_of_all_years(day, count_history_) ==
    YearTotalEvent(Sum(AllCounts(count_history_)), day)

_extract_year_total_count_event(day, count_history_) ==
    Try(Get(_get_year_to_count(count_history_), YearOf(day)), LAMBDA year_total :
        YearTotalEvent(year_total.value, day))

\* a variant of the list without _extract_total_count_event
_EVENT_COMPUTERS_without_total ==
    <<"_historical_record", "_get_day_rank", "_get_month_summary", "_get_year_summary",
      "_extract_month_total_count_event", "_extract_year_total_count_event">>

_EVENT_COMPUTERS ==
    <<"_historical_record", "_get_day_rank", "_get_month_summary", "_get_year_summary",
      "_extract_total_count_event", "_extract_month_total_count_event",
      "_extract_year_total_count_event">>

\* event_computer(day, count_history)
CallEventComputer(event_computer, day, count_history_) ==
    CASE event_computer = "_historical_record" -> _historical_record(day, count_history_)
      [] event_computer = "_get_day_rank" -> _get_day_rank(day, count_history_)
      [] event_computer = "_get_month_summary" -> _get_month_summary(day, count_history_)
      [] event_computer = "_get_year_summary" -> _get_year_summary(day, count_history_)
      [] event_computer = "_extract_total_count_event" ->
            _extract_total_count_event(day, count_history_)
      [] event_computer = "_extract_month_total_count_event" ->
            _extract_month_total_count_event(day, count_history_)
      [] event_computer = "_extract_year_total_count_event" ->
            _extract_year_total_count_event(day, count_history_)

\* the exception of the first call that raises or, when none does, the list of the
\* events that are not None
FirstRaisedOrEvents(potential_events) ==
    IF \E i \in 1..Len(potential_events) : IsError(potential_events[i])
    THEN potential_events[Min({i \in 1..Len(potential_events) : IsError(potential_events[i])})]
    ELSE Returns(SelectSeq(potential_events, LAMBDA event : event.type # "None"))

\* a variant that stops at the first computer that returns None
_extract_counting_events_until_none(day, count_history_, event_computers) ==
    Try(FirstRaisedOrEvents([i \in 1..Len(event_computers) |->
                                CallEventComputer(event_computers[i], day, count_history_)]),
        LAMBDA events :
            Returns(SubSeq(events.value, 1,
                           Min({i \in 1..(Len(event_computers) + 1) :
                                    \/ i > Len(event_computers)
                                    \/ CallEventComputer(event_computers[i], day,
                                                         count_history_).type = "None"}) - 1)))

\* the computers are called in order
_extract_counting_events(day, count_history_, event_computers) ==
    FirstRaisedOrEvents([i \in 1..Len(event_computers) |->
                            CallEventComputer(event_computers[i], day, count_history_)])

-----------------------------------------------------------------------------
(* random: the generator is a state in 0..NbRngStates-1; a draw below n is a *)
(* function of the state, onto 0..n-1, and moves the generator on           *)

RngStates == 0..(NbRngStates - 1)

RandBelow(state, n) == state % n

Advance(state) == (state + 1) % NbRngStates

\* a variant that draws from a second generator, which random.seed does not reset:
\* it has moved once a call has been made
SystemRandomChoice(seq, state) ==
    seq[RandBelow(IF run = None THEN state ELSE Advance(state), Len(seq)) + 1]

\* random.choice(seq), from generator state `state`
RandomChoice(seq, state) == seq[RandBelow(state, Len(seq)) + 1]

-----------------------------------------------------------------------------
(* compute.py: election and composition *)

\* [i for i, value in enumerate(values) if value == max_value]
IndicesOf(max_value, values) ==
    SelectSeq([i \in 1..Len(values) |-> i - 1], LAMBDA i : values[i + 1] = max_value)

\* a variant without the random choice: values.index(max(values))
_index_of_max_value(values, state) ==
    IF values = <<>> THEN ValueError("Need at least one value to get biggest one.")
    ELSE Returns(Min({i \in 0..(Len(values) - 1) : values[i + 1] = Max(Range(values))}))

_randomly_choose_index_among_max_values(values, state) ==
    IF values = <<>> THEN ValueError("Need at least one value to get biggest one.")
    ELSE Returns(RandomChoice(IndicesOf(Max(Range(values)), values), state))

_elect_event(events, state) ==
    IF events = <<>> THEN ValueError("Need at least one event to choose one.")
    ELSE Try(_randomly_choose_index_among_max_values(
                [i \in 1..Len(events) |-> _score_event(events[i])], state),
             LAMBDA index : events[index.value + 1])

\* a variant that keeps every day
_keep_posterior_days(day, count_history_) == CountHistory(count_history_.daily_counts)

_remove_posterior_days(day, count_history_) ==
    CountHistory(SelectSeq(count_history_.daily_counts, LAMBDA cnt : cnt.date <= day))

\* a variant with the timedelta on the wrong side: the day after is "Hier"
_compute_day_expression_day_after(day, publish_date) ==
    IF day = publish_date THEN "Aujourd'hui"
    ELSE IF publish_date + 1 = day THEN "Hier"
    ELSE "Le " \o date_to_dmy(day)

_compute_day_expression(day, publish_date) ==
    IF day = publish_date THEN "Aujourd'hui"
    ELSE IF publish_date - 1 = day THEN "Hier"
    ELSE "Le " \o date_to_dmy(day)

_compute_first_half_of_tweet(day, count_history_, publish_date) ==
    Try(_safe_get_count(day, count_history_), LAMBDA nb_occurrences_this_day :
        Returns(_compute_day_expression(day, publish_date) \o ", il y a eu "
                    \o Str(nb_occurrences_this_day.value) \o " cyclistes."))

\* '\n'.join(lines)
RECURSIVE JoinLines(_)
JoinLines(lines) ==
    IF lines = <<>> THEN ""
    ELSE IF Len(lines) = 1 THEN lines[1]
    ELSE lines[1] \o "\n" \o JoinLines(Tail(lines))

\* the candidate events of a day: the list, or the exception raised on the way
CandidateEvents(day, count_history_) ==
    Try(_remove_posterior_days(day, count_history_), LAMBDA truncated_count_history :
        _extract_counting_events(day, truncated_count_history, _EVENT_COMPUTERS))

\* what the call leaves: the candidate events, the elected one (or the exception) and
\* the generator, which has moved when random.choice was reached
Elected(events, state) ==
    [events |-> events,
     event |-> Try(events, LAMBDA list : _elect_event(list.value, state)),
     rng |-> IF IsError(events) THEN state
             ELSE IF events.value = <<>> THEN state
             ELSE Advance(state)]

_compute_most_interesting_fact(day, count_history_, state) ==
    Elected(CandidateEvents(day, count_history_), state)

\* a variant that never appends the hashtag
Composed_without_hashtag(first, event, hashtag) ==
    Tweet(JoinLines(<<first, _event_to_fact(event)>>))

\* Tweet('\n'.join(tweet_lines)): the first line, the fact and, if hashtag, its content
Composed(first, event, hashtag) ==
    Tweet(JoinLines(<<first, _event_to_fact(event)>>
                    \o (IF hashtag.type # "None" THEN <<hashtag.content>> ELSE <<>>)))

\* what the call leaves: the Tweet (or the exception), the generator state, and the
\* candidate events and the elected one
Built(fact, day, count_history_, publish_date, hashtag) ==
    [result |-> Try(fact.event, LAMBDA event :
                Try(_compute_first_half_of_tweet(day, count_history_, publish_date),
                    LAMBDA first : Composed(first.value, event, hashtag))),
     rng |-> fact.rng, events |-> fact.events, event |-> fact.event]

build_tweet(day, count_history_, publish_date, hashtag, state) ==
    Built(_compute_most_interesting_fact(day, count_history_, state),
          day, count_history_, publish_date, hashtag)

-----------------------------------------------------------------------------
(* The inputs *)

\* the first date of a list of DayCount
StartDays == {Date(2020, 2, 27), Date(2020, 8, 30), Date(2020, 12, 30)}

Counts == {100, 8812}

\* date - previous date, for consecutive entries of a list: a duplicated day, the
\* next day, a one-day gap, a decreasing date
Steps == {0, 1, 2, -1}

RECURSIVE DayCountLists(_, _)
DayCountLists(first, len) ==
    IF len = 0 THEN {<<>>}
    ELSE {<<DayCount(first, c)>> \o rest :
            c \in Counts,
            rest \in UNION {DayCountLists(first + step, len - 1) : step \in Steps}}

ConstructorArgs ==
    UNION {DayCountLists(first, len) : first \in StartDays, len \in 0..MaxLen}

RECURSIVE Repeat(_, _)
Repeat(str_, n) == IF n = 0 THEN "" ELSE str_ \o Repeat(str_, n - 1)

Hashtags == {None, Hashtag("#" \o Repeat("CompteurRivoli", 12) \o "RivoliParis")}

\* the days in the series, the day before its first and the day after its last
TargetDays(daily_counts) ==
    IF daily_counts = <<>> THEN StartDays
    ELSE (daily_counts[1].date - 1) .. (daily_counts[Len(daily_counts)].date + 1)

\* publish_date - day
PublishOffsets == {-1, 0, 1, 2}

\* random.seed(1), random.seed(2)
Seeds == {1, 2}

-----------------------------------------------------------------------------
(* The state machine *)

Init ==
    /\ rng \in RngStates
    /\ construction = None
    /\ count_history = None
    /\ run = None
    /\ rerun = None

Constructed(days, result) ==
    /\ construction' = [type |-> "CountHistory()", days |-> days,
                        raised |-> IF IsError(result) THEN result ELSE None]
    /\ count_history' = IF IsError(result) THEN count_history ELSE result

\* CountHistory(days): the caller holds the object only when __post_init__ returns
Construct(days) ==
    /\ construction = None
    /\ Constructed(days, CountHistory(days))
    /\ UNCHANGED <<rng, run, rerun>>

\* random.seed(seed), before a call
Seed(seed) ==
    /\ rerun = None
    /\ rng' = seed
    /\ UNCHANGED <<construction, count_history, run, rerun>>

SameArguments(call, day, publish_date, hashtag) ==
    /\ call.type = "build_tweet()"
    /\ call.day = day
    /\ call.publish_date = publish_date
    /\ call.hashtag = hashtag

\* the call is recorded; when the call before it had the same arguments, so is
\* whether the generator was in the same state and whether the outcome is the same
Called(day, publish_date, hashtag, out) ==
    /\ run' = [type |-> "build_tweet()", day |-> day, publish_date |-> publish_date,
               hashtag |-> hashtag, rng_before |-> rng,
               events |-> out.events, event |-> out.event, result |-> out.result]
    /\ rng' = out.rng
    /\ rerun' = IF SameArguments(run, day, publish_date, hashtag)
                THEN [type |-> "rerun", same_rng |-> run.rng_before = rng,
                      same_result |-> run.result = out.result]
                ELSE None

\* a variant of _remove_posterior_days that filters in place:
\* count_history.daily_counts = [cnt for cnt in ... if cnt.date <= day]
filtered_in_place(day, count_history_) ==
    [count_history_ EXCEPT !.daily_counts = SelectSeq(@, LAMBDA cnt : cnt.date <= day)]

\* the CountHistory the caller passed, once build_tweet has returned or raised:
\* _remove_posterior_days builds a new list and a new CountHistory from it, the
\* computers build new lists and dicts, and nothing assigns to the argument
argument_after_build_tweet(day, count_history_) == count_history_

\* build_tweet(day, count_history, publish_date, hashtag)
BuildTweet(day, publish_date, hashtag) ==
    /\ Called(day, publish_date, hashtag,
              build_tweet(day, count_history, publish_date, hashtag, rng))
    /\ count_history' = argument_after_build_tweet(day, count_history)
    /\ UNCHANGED construction

\* a first call, on any day of TargetDays
FirstCallWith(offsets, hashtags) ==
    /\ count_history # None
    /\ run = None
    /\ \E day \in TargetDays(count_history.daily_counts),
          offset \in offsets, hashtag \in hashtags :
            BuildTweet(day, day + offset, hashtag)

\* a first call, with any publish date and hashtag
FirstCall == FirstCallWith(PublishOffsets, Hashtags)

Next ==
    \/ \E days \in ConstructorArgs : Construct(days)
    \/ \E seed \in Seeds : Seed(seed)
    \/ FirstCall

Spec == Init /\ [][Next]_vars

-----------------------------------------------------------------------------
(* build_tweet called twice with the same arguments *)

\* a first call published the day after the target day, without hashtag
FirstCallForYesterday == FirstCallWith({1}, {None})

\* the same call once more
SecondCall ==
    /\ run # None
    /\ rerun = None
    /\ BuildTweet(run.day, run.publish_date, run.hashtag)

NextRerun ==
    \/ \E days \in ConstructorArgs : Construct(days)
    \/ \E seed \in Seeds : Seed(seed)
    \/ FirstCallForYesterday
    \/ SecondCall

SpecRerun == Init /\ [][NextRerun]_vars

-----------------------------------------------------------------------------
(* _compute_most_interesting_fact on two series that agree up to the target day *)

\* the entries of a series dated up to and including day
UpTo(day, daily_counts) == SelectSeq(daily_counts, LAMBDA cnt : cnt.date <= day)

\* the lists of len entries on consecutive days from first on
RECURSIVE ConsecutiveDayCounts(_, _)
ConsecutiveDayCounts(first, len) ==
    IF len = 0 THEN {<<>>}
    ELSE {<<DayCount(first, c)>> \o rest :
            c \in Counts, rest \in ConsecutiveDayCounts(first + 1, len - 1)}

\* the series that continue `entries` with other days after day
Continued(day, entries) ==
    {entries \o later :
        later \in UNION {ConsecutiveDayCounts(first, len) :
                            first \in (IF entries = <<>> THEN {day + 1, day + 2}
                                       ELSE {entries[Len(entries)].date + 1}),
                            len \in 0..(MaxLen - Len(entries))}}

\* the series that have the entries of daily_counts up to day, and any entries after
OtherSeries(day, daily_counts) == Continued(day, UpTo(day, daily_counts))

ComparedFacts(day, other, fact, other_fact) ==
    /\ run' = [type |-> "_compute_most_interesting_fact()", day |-> day,
               events |-> fact.events, event |-> fact.event]
    /\ rerun' = [type |-> "other series", daily_counts |-> other.daily_counts,
                 events |-> other_fact.events, event |-> other_fact.event]
    /\ rng' = other_fact.rng

FactOf(day, other, fact) ==
    ComparedFacts(day, other, fact, _compute_most_interesting_fact(day, other, fact.rng))

\* _compute_most_interesting_fact(day, count_history), then
\* _compute_most_interesting_fact(day, other)
FactOfTwoSeries(day, other) ==
    /\ FactOf(day, other, _compute_most_interesting_fact(day, count_history, rng))
    /\ UNCHANGED <<construction, count_history>>

FactsOfSeriesAgreeingUpToDay ==
    /\ count_history # None
    /\ run = None
    /\ \E day \in TargetDays(count_history.daily_counts) :
            \E other \in OtherSeries(day, count_history.daily_counts) :
                FactOfTwoSeries(day, CountHistory(other))

NextFuture ==
    \/ \E days \in ConstructorArgs : Construct(days)
    \/ FactsOfSeriesAgreeingUpToDay

SpecFuture == Init /\ [][NextFuture]_vars

-----------------------------------------------------------------------------
(* _optimistic_rank on lists of values, _day_rank on the days of a series *)

RankValues == {1, 2, 3}

\* the lists of at most MaxLen values
ValueLists == UNION {[1..len -> RankValues] : len \in 0..MaxLen}

\* _optimistic_rank(target, values), called once, next to a series
OptimisticRank(target, values) ==
    /\ count_history # None
    /\ run = None
    /\ run' = [type |-> "_optimistic_rank()", target |-> target, values |-> values,
               result |-> _optimistic_rank(target, values)]
    /\ UNCHANGED <<rng, construction, count_history, rerun>>

\* _day_rank(day, count_history)
DayRankOfSeries ==
    /\ count_history # None
    /\ run = None
    /\ \E day \in TargetDays(count_history.daily_counts) :
            run' = [type |-> "_day_rank()", day |-> day,
                    result |-> _day_rank(day, count_history)]
    /\ UNCHANGED <<rng, construction, count_history, rerun>>

NextRank ==
    \/ \E days \in ConstructorArgs : Construct(days)
    \/ \E values \in ValueLists, target \in RankValues : OptimisticRank(target, values)
    \/ DayRankOfSeries

SpecRank == Init /\ [][NextRank]_vars

-----------------------------------------------------------------------------
(* A series written as CSV or as JSON, and read again *)

\* CountHistory.from_csv(count_history.to_csv())
CsvRoundTrip ==
    /\ count_history # None
    /\ run = None
    /\ run' = [type |-> "reload", format |-> "csv",
               written |-> CountHistory_to_csv(count_history),
               result |-> CountHistory_from_csv(CountHistory_to_csv(count_history))]
    /\ UNCHANGED <<rng, construction, count_history, rerun>>

\* CountHistory.from_json(count_history.to_json())
JsonRoundTrip ==
    /\ count_history # None
    /\ run = None
    /\ run' = [type |-> "reload", format |-> "json",
               written |-> CountHistory_to_json(count_history),
               result |-> CountHistory_from_json(CountHistory_to_json(count_history))]
    /\ UNCHANGED <<rng, construction, count_history, rerun>>

NextRoundTrip ==
    \/ \E days \in ConstructorArgs : Construct(days)
    \/ CsvRoundTrip
    \/ JsonRoundTrip

SpecRoundTrip == Init /\ [][NextRoundTrip]_vars

-----------------------------------------------------------------------------
(* default_score() of the events of every class *)

Totals == {7, 100, 999, 1000, 1234, 8812, 9000, 999990, 1000000}

\* days of a month on each side of the day-of-month tests
ScoreDays == {Date(2020, 3, day_of_month) : day_of_month \in {1, 2, 3, 4, 5, 6, 15, 31}}

\* events of every class; the DayHistoricalRankEvent are those that can be
\* constructed, up to MaxNbDays days
ScoredEvents ==
    {HistoricalRecordEvent,
     MonthSummaryEvent(Month(3, 2020), 8812, 0),
     YearSummaryEvent(2020, 8812, 0)}
    \cup {event \in {DayHistoricalRankEvent(rank, among_nb_days) :
                        rank \in 0..(MaxNbDays - 1), among_nb_days \in 1..MaxNbDays} :
            ~IsError(event)}
    \cup {MonthRecordEvent(day) : day \in ScoreDays}
    \cup {YearTotalEvent(total, day) : total \in Totals, day \in ScoreDays}
    \cup {MonthTotalEvent(total, day) : total \in Totals, day \in ScoreDays}
    \cup {HistoricalTotalEvent(total) : total \in Totals}

\* event.default_score()
DefaultScore(event) ==
    /\ run = None
    /\ run' = [type |-> "default_score()", event |-> event, result |-> _score_event(event)]
    /\ UNCHANGED <<rng, construction, count_history, rerun>>

\* _number_is_funny(number)
NumberIsFunny(number) ==
    /\ run = None
    /\ run' = [type |-> "_number_is_funny()", number |-> number,
               result |-> _number_is_funny(number)]
    /\ UNCHANGED <<rng, construction, count_history, rerun>>

\* event.default_message()
DefaultMessage(event) ==
    /\ run = None
    /\ run' = [type |-> "default_message()", event |-> event,
               result |-> _event_to_fact(event)]
    /\ UNCHANGED <<rng, construction, count_history, rerun>>

\* one method is called, on one event or number
NextScores ==
    /\ run = None
    /\ \/ \E event \in ScoredEvents : DefaultScore(event)
       \/ \E among_nb_days \in 1..MaxMessageDays :
            \E rank \in 0..(among_nb_days - 1) :
                DefaultMessage(DayHistoricalRankEvent(rank, among_nb_days))
       \/ \E number \in (0..1111) \cup {9000, 9999, 10000, 10001, 99999, 999990, 1000000} :
            NumberIsFunny(number)

SpecScores == Init /\ [][NextScores]_vars

-----------------------------------------------------------------------------
(* DayHistoricalRankEvent constructed directly, and by build_tweet *)

\* DayHistoricalRankEvent(rank, among_nb_days)
NewDayHistoricalRankEvent(rank, among_nb_days) ==
    /\ run = None
    /\ construction = None
    /\ run' = [type |-> "DayHistoricalRankEvent()", rank |-> rank,
               among_nb_days |-> among_nb_days,
               result |-> DayHistoricalRankEvent(rank, among_nb_days)]
    /\ UNCHANGED <<rng, construction, count_history, rerun>>

\* the events are constructed, or a series is and build_tweet is called on it
NextRankEvent ==
    \/ \E days \in ConstructorArgs : run = None /\ Construct(days)
    \/ \E rank \in 0..2, among_nb_days \in 0..2 :
            NewDayHistoricalRankEvent(rank, among_nb_days)
    \/ FirstCallWith({0}, {None})

SpecRankEvent == Init /\ [][NextRankEvent]_vars

-----------------------------------------------------------------------------
(* build_tweet on a series over two or three months *)

\* the series of up to MaxLongLen consecutive days from a January 31 on, with one
\* count on the first day and one on every other day
LongSeries ==
    {[i \in 1..len |-> DayCount(first + i - 1, IF i = 1 THEN count ELSE other)] :
        first \in {Date(2020, 1, 31), Date(2021, 1, 31)}, len \in 1..MaxLongLen,
        count \in {100, 2800, 300000}, other \in {100, 8812}}

NextLong ==
    \/ \E days \in LongSeries : Construct(days)
    \/ FirstCallWith({0}, {None})

SpecLong == Init /\ [][NextLong]_vars

-----------------------------------------------------------------------------
(* The event computers in another order *)

\* _EVENT_COMPUTERS with two neighbours exchanged (every order is a sequence of such
\* exchanges), rotated, or reversed
ComputerOrders ==
    {[k \in 1..7 |-> _EVENT_COMPUTERS[IF k = i THEN i + 1 ELSE IF k = i + 1 THEN i ELSE k]] :
        i \in 1..6}
    \cup {[k \in 1..7 |-> _EVENT_COMPUTERS[((k + shift) % 7) + 1]] : shift \in 0..6}
    \cup {[k \in 1..7 |-> _EVENT_COMPUTERS[8 - k]]}

\* _extract_counting_events(day, truncated_count_history, event_computers)
ExtractWithComputers(day, event_computers) ==
    /\ run' = [type |-> "_extract_counting_events()", day |-> day,
               event_computers |-> event_computers,
               events |-> Try(_remove_posterior_days(day, count_history),
                              LAMBDA truncated_count_history :
                                _extract_counting_events(day, truncated_count_history,
                                                         event_computers))]
    /\ UNCHANGED <<rng, construction, count_history, rerun>>

NextOrder ==
    \/ \E days \in ConstructorArgs : Construct(days)
    \/ /\ count_history # None
       /\ run = None
       /\ \E day \in TargetDays(count_history.daily_counts),
             event_computers \in ComputerOrders : ExtractWithComputers(day, event_computers)

SpecOrder == Init /\ [][NextOrder]_vars

-----------------------------------------------------------------------------
(* entry_points/instances.py, clock.py: the jobs of the scheduler.  The wrapped *)
(* function returns or raises; each post to Slack gets a status code            *)

\* post_to_slack(url, text), given the status code of the response
post_to_slack(text, status_code) ==
    IF 200 <= status_code /\ status_code < 300 THEN None
    ELSE ValueError("Failed posting to slack: status_code=" \o Str(status_code))

\* the except clause: the message, with the traceback of the exception caught, is
\* posted, and what the post raises propagates to the caller
PostFailure(text, caught, posted, status_code) ==
    [posts |-> Append(posted, [text |-> text, traceback |-> caught,
                               status_code |-> status_code]),
     raised |-> post_to_slack(text, status_code)]

\* execute_and_publish_output(func, args): call is func_name(args_str), outcome is
\* what func(*args) returns or raises; the post of the success message is inside the
\* try block
execute_and_publish_output(call, outcome, status_codes) ==
    IF IsError(outcome)
    THEN PostFailure("Failed executing function " \o call, outcome, <<>>, status_codes[1])
    ELSE IF ~IsError(post_to_slack("Succesfully executed " \o call, status_codes[1]))
         THEN [posts |-> <<[text |-> "Succesfully executed " \o call, traceback |-> None,
                            status_code |-> status_codes[1]]>>,
               raised |-> None]
         ELSE PostFailure("Failed executing function " \o call,
                          post_to_slack("Succesfully executed " \o call, status_codes[1]),
                          <<[text |-> "Succesfully executed " \o call, traceback |-> None,
                             status_code |-> status_codes[1]]>>,
                          status_codes[2])

\* _post_exceptions_to_slack(func, args)
_post_exceptions_to_slack(call, outcome, status_codes) ==
    IF IsError(outcome)
    THEN PostFailure("Failed executing function " \o call, outcome, <<>>, status_codes[1])
    ELSE [posts |-> <<>>, raised |-> None]

\* what func(*args) does: it returns, or raises
Outcomes == {None, KeyError, ValueError("Expecting slack url to be defined.")}

StatusCodes == {200, 204, 404, 500}

\* a job of instances.py: random.seed(seed), then execute_and_publish_output
InstanceJob(seed, call, out) ==
    /\ rng' = seed
    /\ run' = [type |-> "execute_and_publish_output()", call |-> call[1],
               outcome |-> call[2], posts |-> out.posts, raised |-> out.raised]
    /\ UNCHANGED <<construction, count_history, rerun>>

\* a job of clock.py
ClockJob(call, out) ==
    /\ run' = [type |-> "_post_exceptions_to_slack()", call |-> call[1],
               outcome |-> call[2], posts |-> out.posts, raised |-> out.raised]
    /\ UNCHANGED <<rng, construction, count_history, rerun>>

NextJobs ==
    \/ \E seed \in Seeds, outcome \in Outcomes, status_codes \in StatusCodes \X StatusCodes,
          func_name \in {"fetch_data_and_post_tweet_to_slack", "fetch_data_and_publish_tweet"} :
            InstanceJob(seed,
                        <<func_name \o (IF seed = 1 THEN "(CounterName.RIVOLI)"
                                        ELSE "(CounterName.SEBASTOPOL)"), outcome>>,
                        execute_and_publish_output(
                            func_name \o (IF seed = 1 THEN "(CounterName.RIVOLI)"
                                          ELSE "(CounterName.SEBASTOPOL)"),
                            outcome, status_codes))
    \/ \E counter \in {"RIVOLI", "SEBASTOPOL"}, outcome \in Outcomes,
          status_codes \in StatusCodes \X StatusCodes :
            ClockJob(<<"_fetch_and_post_to_slack with args [CounterName." \o counter \o "]",
                       outcome>>,
                     _post_exceptions_to_slack(
                        "_fetch_and_post_to_slack with args [CounterName." \o counter \o "]",
                        outcome, status_codes))

SpecJobs == Init /\ [][NextJobs]_vars

-----------------------------------------------------------------------------
(* tweet.py: the pipeline, from the file of the series to the handler *)

_load_count_history(file) == CountHistory_from_csv(file)

\* the target day, or the exception raised, and the generator after random.choice
_get_day(count_history_, target_day_desc, state) ==
    IF target_day_desc.type = "date"
    THEN [day |-> Returns(target_day_desc.value), rng |-> state]
    ELSE IF target_day_desc.value = "last"
    THEN [day |-> IF count_history_.daily_counts = <<>>
                  THEN ValueError("max() arg is an empty sequence")
                  ELSE Returns(Max({count_history_.daily_counts[i].date :
                                        i \in 1..Len(count_history_.daily_counts)})),
          rng |-> state]
    ELSE IF target_day_desc.value = "random"
    THEN IF count_history_.daily_counts = <<>>
         THEN [day |-> IndexError, rng |-> state]
         ELSE [day |-> Returns(RandomChoice(count_history_.daily_counts, state).date),
               rng |-> Advance(state)]
    ELSE [day |-> ValueError("Expecting value \"last\", \"random\" or date value. Received "
                            \o target_day_desc.value),
          rng |-> state]

\* a variant that hands over to the handler whatever build_tweet gave
Handled_in_any_case(built, day, handle_outcome) ==
    [day |-> day, handled |-> <<built.result>>, raised |-> handle_outcome, rng |-> built.rng]

\* handler.handle_tweet(tweet), reached when build_tweet returned; what it raises
\* propagates
Handled(built, day, handle_outcome) ==
    IF IsError(built.result)
    THEN [day |-> day, handled |-> <<>>, raised |-> built.result, rng |-> built.rng]
    ELSE [day |-> day, handled |-> <<built.result>>, raised |-> handle_outcome,
          rng |-> built.rng]

\* tweet = build_tweet(target_day, count_history, date.today(), hashtag)
BuiltForDay(count_history_, target, today, hashtag, handle_outcome) ==
    IF IsError(target.day)
    THEN [day |-> target.day, handled |-> <<>>, raised |-> target.day, rng |-> target.rng]
    ELSE Handled(build_tweet(target.day.value, count_history_, today, hashtag, target.rng),
                 target.day, handle_outcome)

\* target_day = _get_day(count_history, target_day_desc)
Loaded(count_history_, target_day_desc, today, hashtag, handle_outcome, state) ==
    IF IsError(count_history_)
    THEN [day |-> None, handled |-> <<>>, raised |-> count_history_, rng |-> state]
    ELSE BuiltForDay(count_history_, _get_day(count_history_, target_day_desc, state),
                     today, hashtag, handle_outcome)

\* what the call leaves: the target day, the tweets handed to the handler, the
\* exception that propagates to the caller (or None) and the generator
load_data_and_dispatch_tweet(file, handle_outcome, target_day_desc, today, hashtag, state) ==
    Loaded(_load_count_history(file), target_day_desc, today, hashtag, handle_outcome, state)

\* the target day descriptions: 'last', 'random', another str, and dates
TargetDayDescs(days) ==
    {[type |-> "str", value |-> str_] : str_ \in {"last", "random", "yesterday"}}
    \cup {[type |-> "date", value |-> day] : day \in TargetDays(days)}

\* the file holds the lines of `days`, as fetch_data writes them; handle_outcome is
\* what handler.handle_tweet does when it is called: it returns, or raises
LoadDataAndDispatchTweet(days, call, out) ==
    /\ run = None
    /\ run' = [type |-> "load_data_and_dispatch_tweet()", days |-> days,
               target_day_desc |-> call[1], today |-> call[2], hashtag |-> call[3],
               rng_before |-> rng, day |-> out.day, handled |-> out.handled,
               raised |-> out.raised]
    /\ rng' = out.rng
    /\ UNCHANGED <<construction, count_history, rerun>>

\* the lines of the file: none, one day, or two of which the second is the same day,
\* the next day, two days later or the day before
DispatchedSeries ==
    {<<>>}
    \cup {<<DayCount(Date(2020, 8, 30), count)>> : count \in Counts}
    \cup {<<DayCount(Date(2020, 8, 30), count), DayCount(Date(2020, 8, 30) + step, 100)>> :
            count \in Counts, step \in Steps}

\* no hashtag, the hashtag of the counter repeated, and one of 281 characters
DispatchedHashtags == Hashtags \cup {Hashtag("#" \o Repeat("CompteurRivoli", 20))}

NextDispatch ==
    \E days \in DispatchedSeries, hashtag \in DispatchedHashtags,
       handle_outcome \in {None, ValueError("Failed posting to slack: status_code=500")} :
        \E target_day_desc \in TargetDayDescs(days), today \in TargetDays(days) :
            LoadDataAndDispatchTweet(
                days, <<target_day_desc, today, hashtag>>,
                load_data_and_dispatch_tweet(
                    Join("\n", [i \in 1..Len(days) |-> DayCount_to_csv(days[i])]),
                    handle_outcome, target_day_desc, today, hashtag, rng))

SpecDispatch == Init /\ [][NextDispatch]_vars

-----------------------------------------------------------------------------
(* Properties of the construction of a CountHistory *)

OneDayApart(days) ==
    \A i \in 1..(Len(days) - 1) : days[i + 1].date = days[i].date + 1

\* C1: CountHistory(days) succeeds if and only if every entry of days is dated one
\* day after the entry before it.  A gap, a duplicated day or a decreasing date
\* raises an error and the caller holds no CountHistory; a list of zero or one
\* entry always succeeds, and the CountHistory built holds the list.
C1_ConstructionIffOneDayApart ==
    construction.type = "CountHistory()" =>
        /\ (construction.raised = None) <=> OneDayApart(construction.days)
        /\ construction.raised = None =>
                /\ count_history.type = "CountHistory"
                /\ count_history.daily_counts = construction.days
        /\ construction.raised # None =>
                /\ construction.raised.type = "ValueError"
                /\ count_history = None
        /\ Len(construction.days) <= 1 => construction.raised = None

\* a list of three entries whose first pair is one day apart and whose second pair
\* leaves a one-day gap: the construction has raised
C1_GapAfterSecondEntryRaised ==
    /\ construction.type = "CountHistory()"
    /\ Len(construction.days) = 3
    /\ construction.days[2].date = construction.days[1].date + 1
    /\ construction.days[3].date = construction.days[2].date + 2
    /\ construction.raised # None
    /\ count_history = None

-----------------------------------------------------------------------------
(* Properties of the message *)

DayIsInSeries(day, daily_counts) ==
    \E i \in 1..Len(daily_counts) : daily_counts[i].date = day

\* the day of the last call is in the series, and an event was elected
CalledOnDayOfSeries ==
    /\ run.type = "build_tweet()"
    /\ DayIsInSeries(run.day, count_history.daily_counts)
    /\ ~IsError(run.event)

\* the first line of the last call
FirstLine == _compute_first_half_of_tweet(run.day, count_history, run.publish_date).value

\* the lines, each followed by a newline except the last
ThreeLines(first, fact, hashtag) ==
    first \o "\n" \o fact \o (IF hashtag = None THEN "" ELSE "\n" \o hashtag.content)

\* C2: a Tweet returned by build_tweet has at most 280 characters, and when the
\* joined lines (day sentence, event sentence, hashtag if any) have more than 280
\* characters build_tweet raises and returns no Tweet.
C2_AtMost280Characters ==
    /\ run.type = "build_tweet()" /\ run.result.type = "Tweet" =>
            Len(run.result.content) <= 280
    /\ CalledOnDayOfSeries
            /\ Len(ThreeLines(FirstLine, _event_to_fact(run.event), run.hashtag)) > 280 =>
            run.result.type = "ValueError"

\* the joined lines have 281 characters and the call has raised
C2_Raised281Characters ==
    /\ CalledOnDayOfSeries
    /\ Len(ThreeLines(FirstLine, _event_to_fact(run.event), run.hashtag)) = 281
    /\ run.result.type = "ValueError"

\* C3: for a day of the series, the content build_tweet returns is the day sentence,
\* the default_message of the elected event and, if and only if a hashtag was
\* passed, the content of the hashtag, joined by one newline each.
C3_ContentIsJoinedLines ==
    CalledOnDayOfSeries /\ run.result.type = "Tweet" =>
        run.result.content =
            (IF run.hashtag = None
             THEN FirstLine \o "\n" \o _event_to_fact(run.event)
             ELSE FirstLine \o "\n" \o _event_to_fact(run.event)
                            \o "\n" \o run.hashtag.content)

\* a Tweet of three lines: a hashtag was passed
C3_TweetWithHashtag ==
    /\ CalledOnDayOfSeries
    /\ run.result.type = "Tweet"
    /\ run.hashtag # None
    /\ Len(run.result.content) =
            Len(FirstLine) + 1 + Len(_event_to_fact(run.event)) + 1 + Len(run.hashtag.content)

\* the count of the entry of the series dated `day`
CountOn(day, daily_counts) ==
    daily_counts[CHOOSE i \in 1..Len(daily_counts) : daily_counts[i].date = day].count

\* C4: for a day of the series the first line is
\* '<DayExpression>, il y a eu <count> passages de cyclistes.', <count> being the
\* count of that day: 100 on 2020-08-31, published on 2020-09-01, gives
\* 'Hier, il y a eu 100 passages de cyclistes.'
C4_FirstLineCountsPassages ==
    CalledOnDayOfSeries /\ CountOn(run.day, count_history.daily_counts) < 1000 =>
        FirstLine = _compute_day_expression(run.day, run.publish_date)
                        \o ", il y a eu "
                        \o Str(CountOn(run.day, count_history.daily_counts))
                        \o " passages de cyclistes."

\* three digits, zero-padded
Pad3(n) == IF n < 10 THEN "00" \o Str(n) ELSE IF n < 100 THEN "0" \o Str(n) ELSE Str(n)

\* the digits of n grouped by three from the right, the groups one space apart
RECURSIVE GroupedByThree(_)
GroupedByThree(n) ==
    IF n < 1000 THEN Str(n)
    ELSE GroupedByThree(n \div 1000) \o " " \o Pad3(n % 1000)

\* the sentence of an event with its count grouped by three
SentenceWithGroupedCount(event) ==
    CASE event.type = "MonthSummaryEvent" ->
            _month_to_french(event.month) \o " : " \o _build_french_ordinal(event.month_rank)
                \o "meilleur mois de l'histoire avec "
                \o GroupedByThree(event.month_count) \o " passages."
      [] event.type = "YearSummaryEvent" ->
            Str(event.year) \o " : " \o _build_french_ordinal(event.year_rank)
                \o "meilleure année de l'histoire avec "
                \o GroupedByThree(event.year_count) \o " passages."
      [] event.type = "YearTotalEvent" ->
            GroupedByThree(event.year_total) \o " passages depuis le début de l'année."
      [] event.type = "MonthTotalEvent" ->
            GroupedByThree(event.month_total) \o " passages depuis le début du mois."
      [] event.type = "HistoricalTotalEvent" ->
            GroupedByThree(event.historical_total)
                \o " passages depuis l'installation du compteur."
      [] OTHER -> _event_to_fact(event)

\* C5: an integer rendered in the sentence of an event (MonthSummary, YearSummary,
\* YearTotal, MonthTotal, HistoricalTotal) has its digits grouped by three from the
\* right, the groups separated by one space (8812 is '8 812'); a number below 1000
\* has no separator.
C5_CountsGroupedByThree ==
    run.type = "build_tweet()" /\ ~IsError(run.events) =>
        \A i \in 1..Len(run.events.value) :
            _event_to_fact(run.events.value[i]) = SentenceWithGroupedCount(run.events.value[i])

\* C6: _compute_day_expression(day, publish_date) is "Aujourd'hui" when day is
\* publish_date, "Hier" when day is the day before publish_date, and otherwise
\* (two days or more before it, or after it) "Le DD/MM/YYYY", the day and the month
\* on two digits.
C6_DayExpression ==
    run.type = "build_tweet()" =>
        _compute_day_expression(run.day, run.publish_date) =
            (IF run.publish_date - run.day = 0 THEN "Aujourd'hui"
             ELSE IF run.publish_date - run.day = 1 THEN "Hier"
             ELSE "Le " \o Pad2(DayOf(run.day)) \o "/" \o Pad2(MonthOf(run.day))
                        \o "/" \o Str(YearOf(run.day)))

\* a Tweet for a day after its publish date, whose first line starts with the date
C6_TweetForDayAfterPublishDate ==
    /\ CalledOnDayOfSeries
    /\ run.result.type = "Tweet"
    /\ run.day = run.publish_date + 1
    /\ run.day = Date(2020, 9, 1)
    /\ FirstLine = "Le 01/09/2020, il y a eu "
                        \o Str(CountOn(run.day, count_history.daily_counts)) \o " cyclistes."

-----------------------------------------------------------------------------
(* Properties of the election *)

Scores(events) == [i \in 1..Len(events) |-> _score_event(events[i])]

\* the events whose score is the maximum of the scores of the list
MaxScoreEvents(events) ==
    {events[i] : i \in {j \in 1..Len(events) : \A k \in 1..Len(events) :
                            _score_event(events[k]) <= _score_event(events[j])}}

\* the events _elect_event returns, over the states of the generator
ElectableEvents(events) == {_elect_event(events, state) : state \in RngStates}

\* C7: for a non-empty list of events, the events _elect_event can return over the
\* outcomes of the random choice are exactly the events whose score is the maximum
\* of the list: never an event of lower score, and each event tied at the maximum.
\* (The generator has at least as many states as events are tied.)
C7_ElectsExactlyMaxScoreEvents ==
    run.type = "build_tweet()" /\ ~IsError(run.events) /\ run.events.value # <<>> =>
        /\ ElectableEvents(run.events.value) = MaxScoreEvents(run.events.value)
        /\ run.event \in MaxScoreEvents(run.events.value)

\* three events are tied at the maximum, below them is one of lower score, and
\* the event elected is not the first of the three
C7_ElectedAmongThreeTied ==
    /\ run.type = "build_tweet()"
    /\ ~IsError(run.events)
    /\ Cardinality(MaxScoreEvents(run.events.value)) = 3
    /\ Len(run.events.value) > 3
    /\ run.event # run.events.value[Min({i \in 1..Len(run.events.value) :
                        run.events.value[i] \in MaxScoreEvents(run.events.value)})]
    /\ run.event \in MaxScoreEvents(run.events.value)

-----------------------------------------------------------------------------
(* Properties of the lookup of the day *)

\* C9: when the target day is not in the series (before its first day, after its
\* last day, or the series is empty) build_tweet raises the error of the lookup
\* and returns no Tweet; _safe_get_count returns the count stored for the day
\* exactly when the day is in the series, and raises otherwise.
C9_AbsentDayRaises ==
    run.type = "build_tweet()" =>
        /\ ~DayIsInSeries(run.day, count_history.daily_counts) =>
                run.result = ValueError("Day not found in count_history.")
        /\ _safe_get_count(run.day, count_history) =
                (IF DayIsInSeries(run.day, count_history.daily_counts)
                 THEN Returns(CountOn(run.day, count_history.daily_counts))
                 ELSE ValueError("Day not found in count_history."))

\* the call was for the day after the last day of the series, and has raised
C9_DayAfterLastDayRaised ==
    /\ run.type = "build_tweet()"
    /\ count_history.daily_counts # <<>>
    /\ run.day = count_history.daily_counts[Len(count_history.daily_counts)].date + 1
    /\ run.result.type = "ValueError"

-----------------------------------------------------------------------------
(* Properties of the truncation *)

\* C10: days after the target day are invisible to the event computers: for two
\* series that have the same entries up to and including the target day and
\* differ only after it, _compute_most_interesting_fact works on the same list of
\* candidate events, with the same fields and the same scores (or raises the same
\* error).
C10_FutureDaysInvisible ==
    /\ rerun.type = "other series"
    /\ UpTo(run.day, rerun.daily_counts) = UpTo(run.day, count_history.daily_counts)
    =>
    /\ rerun.events = run.events
    /\ ~IsError(run.events) => Scores(rerun.events.value) = Scores(run.events.value)

\* the two series differ after the target day, which is a day of both, and the
\* candidate events hold totals
C10_SeriesDifferAfterDay ==
    /\ rerun.type = "other series"
    /\ DayIsInSeries(run.day, count_history.daily_counts)
    /\ UpTo(run.day, rerun.daily_counts) = UpTo(run.day, count_history.daily_counts)
    /\ rerun.daily_counts # count_history.daily_counts
    /\ Len(rerun.daily_counts) = Len(count_history.daily_counts)
    /\ ~IsError(run.events)
    /\ \E i \in 1..Len(run.events.value) : run.events.value[i].type = "HistoricalTotalEvent"

-----------------------------------------------------------------------------
(* Properties of the series after a call *)

-----------------------------------------------------------------------------
(* Properties of the candidate events *)

\* the count of the day of the last call is the maximum of the counts of the days
\* up to and including it
DayIsRecord ==
    \A i \in 1..Len(count_history.daily_counts) :
        count_history.daily_counts[i].date <= run.day =>
            count_history.daily_counts[i].count <=
                CountOn(run.day, count_history.daily_counts)

\* C12: whenever the count of the target day equals the maximum of the counts of
\* the days up to and including it, the event elected is the HistoricalRecordEvent,
\* for every outcome of the random choice, and the second line of the Tweet is
\* 'Record historique !': every other candidate event has a score below 1.0.
C12_RecordAlwaysElected ==
    CalledOnDayOfSeries /\ DayIsRecord =>
        /\ run.event = HistoricalRecordEvent
        /\ ElectableEvents(run.events.value) = {HistoricalRecordEvent}
        /\ \A i \in 1..Len(run.events.value) :
                run.events.value[i] # HistoricalRecordEvent =>
                    _score_event(run.events.value[i]) < 100
        /\ run.result.type = "Tweet" =>
                run.result.content =
                    ThreeLines(FirstLine, "Record historique !", run.hashtag)

\* December 31 equals the count of the day before it: the record is elected
\* although a month summary and a year summary are candidates
C12_RecordElectedOverSummaries ==
    /\ CalledOnDayOfSeries
    /\ run.day = Date(2020, 12, 31)
    /\ DayIsInSeries(run.day - 1, count_history.daily_counts)
    /\ CountOn(run.day - 1, count_history.daily_counts) =
            CountOn(run.day, count_history.daily_counts)
    /\ \E i \in 1..Len(run.events.value) : run.events.value[i].type = "YearSummaryEvent"
    /\ \E i \in 1..Len(run.events.value) : run.events.value[i].type = "MonthSummaryEvent"
    /\ run.event = HistoricalRecordEvent

\* the types of the events _elect_event returns, over the states of the generator
ElectableTypes(events) == {_elect_event(events, state).type : state \in RngStates}

EventTypes(events) == {events[i].type : i \in 1..Len(events)}

\* C13: on a December 31 that is not a historical record, a MonthSummaryEvent and
\* a YearSummaryEvent are both candidates and the event elected is always the
\* YearSummaryEvent; on any other last day of a month that is not a historical
\* record, the event elected is always the MonthSummaryEvent.
C13_SummaryElectedOnLastDay ==
    CalledOnDayOfSeries /\ ~DayIsRecord
        /\ DayOf(run.day) = DaysInMonth(YearOf(run.day), MonthOf(run.day)) =>
        IF MonthOf(run.day) = 12
        THEN /\ {"MonthSummaryEvent", "YearSummaryEvent"} \subseteq EventTypes(run.events.value)
             /\ run.event.type = "YearSummaryEvent"
             /\ ElectableTypes(run.events.value) = {"YearSummaryEvent"}
        ELSE /\ run.event.type = "MonthSummaryEvent"
             /\ ElectableTypes(run.events.value) = {"MonthSummaryEvent"}

\* a December 31 below the count of December 30: the year summary is elected
C13_YearSummaryElectedOnDecember31 ==
    /\ CalledOnDayOfSeries
    /\ ~DayIsRecord
    /\ run.day = Date(2020, 12, 31)
    /\ run.event.type = "YearSummaryEvent"
    /\ run.result.type = "Tweet"

-----------------------------------------------------------------------------
(* Properties of the ranks *)

\* the number of values of the list strictly greater than target
NbGreater(target, values) == Cardinality({i \in 1..Len(values) : values[i] > target})

\* C14: for a target that occurs in a non-empty list of values,
\* _optimistic_rank(target, values) is at least 0, below len(values), and is the
\* number of values strictly greater than target (tied values get the best index
\* of the descending sort); for a day of a series, _day_rank(day) is that rank of
\* the count of the day among the counts of the series.
C14_OptimisticRank ==
    /\ run.type = "_optimistic_rank()"
            /\ (\E i \in 1..Len(run.values) : run.values[i] = run.target) =>
            /\ run.result.type = "value"
            /\ run.result.value \in 0..(Len(run.values) - 1)
            /\ run.result.value = NbGreater(run.target, run.values)
    /\ run.type = "_day_rank()" /\ DayIsInSeries(run.day, count_history.daily_counts) =>
            run.result =
                Returns(NbGreater(CountOn(run.day, count_history.daily_counts),
                                  [i \in 1..Len(count_history.daily_counts) |->
                                        count_history.daily_counts[i].count]))

\* the target is tied with another value, below a greater one: its rank is 1
C14_TiedTargetGetsBestRank ==
    /\ run.type = "_optimistic_rank()"
    /\ run.values = <<2, 3, 2>>
    /\ run.target = 2
    /\ run.result = Returns(1)

-----------------------------------------------------------------------------
(* Properties of the serialisation *)

\* C15: for a valid CountHistory of any length (zero, one or more days),
\* CountHistory.from_csv(h.to_csv()) and CountHistory.from_json(h.to_json()) both
\* succeed and give a series with the same sequence of (day, count) pairs as h.
C15_RoundTrip ==
    run.type = "reload" =>
        /\ run.result.type = "CountHistory"
        /\ run.result.daily_counts = count_history.daily_counts

-----------------------------------------------------------------------------
(* Properties of the candidate events *)

EmptyListOfEvents(outcome) ==
    /\ IsError(outcome)
    /\ outcome.message \in {"Need at least one event to choose one.",
                            "Need at least one value to get biggest one."}

\* C16: when build_tweet is called on a day of a non-empty series, no event computer
\* raises, and the list of candidate events is not empty and holds a
\* HistoricalTotalEvent; no call of build_tweet, on any day, ends with the error
\* that _elect_event raises on an empty list.
C16_CandidatesHoldHistoricalTotal ==
    run.type = "build_tweet()" =>
        /\ ~EmptyListOfEvents(run.event)
        /\ ~EmptyListOfEvents(run.result)
        /\ DayIsInSeries(run.day, count_history.daily_counts) =>
                /\ run.events.type = "value"
                /\ run.events.value # <<>>
                /\ "HistoricalTotalEvent" \in EventTypes(run.events.value)
                /\ ~IsError(run.event)

\* a call on the first day of a month that is not a record: the candidates are the
\* rank and the three totals, the HistoricalTotalEvent among them
C16_CalledWithTotalsOnly ==
    /\ run.type = "build_tweet()"
    /\ DayIsInSeries(run.day, count_history.daily_counts)
    /\ DayOf(run.day) = 1
    /\ run.events.type = "value"
    /\ EventTypes(run.events.value) = {"DayHistoricalRankEvent", "HistoricalTotalEvent",
                                       "MonthTotalEvent", "YearTotalEvent"}
    /\ run.event.type = "HistoricalTotalEvent"

-----------------------------------------------------------------------------
(* Properties of the scores *)

Scored(type) == run.type = "default_score()" /\ run.event.type = type

\* C17: the default score of a YearTotalEvent is 0 on the first day of a month;
\* otherwise 0.4 up to the fourth day; otherwise 0.75 when the total is a funny
\* number; otherwise 0.5.  The tests on the day come before the test on the total.
C17_YearTotalScore ==
    Scored("YearTotalEvent") =>
        run.result = IF DayOf(run.event.day) = 1 THEN 0
                     ELSE IF DayOf(run.event.day) \in {2, 3, 4} THEN 40
                     ELSE IF _number_is_funny(run.event.year_total) THEN 75
                     ELSE 50

\* a year total of 1000 on the third day of a month scores 0.4
C17_FunnyYearTotalOnThirdDay ==
    /\ Scored("YearTotalEvent")
    /\ run.event.year_total = 1000
    /\ DayOf(run.event.day) = 3
    /\ run.result = 40

\* C18: the default score of a MonthTotalEvent follows the same order: 0 on the
\* first day of a month; otherwise 0.4 up to the fourth day, even when the month
\* total is a funny number such as 1000; otherwise 0.75 when the total is a funny
\* number; otherwise 0.5.
C18_MonthTotalScore ==
    Scored("MonthTotalEvent") =>
        run.result = IF DayOf(run.event.day) = 1 THEN 0
                     ELSE IF DayOf(run.event.day) \in {2, 3, 4} THEN 40
                     ELSE IF _number_is_funny(run.event.month_total) THEN 75
                     ELSE 50

\* C19: the default score of a DayHistoricalRankEvent is 0.8 when
\* 20 * rank <= among_nb_days, otherwise 0.5 when 10 * rank <= 3 * among_nb_days,
\* otherwise 0; the default score of an event of any class is between 0 and 1.
C19_RankScoreAndRange ==
    /\ run.type = "default_score()" => run.result \in 0..100
    /\ Scored("DayHistoricalRankEvent") =>
        /\ run.result = 80 <=> 20 * run.event.rank <= run.event.among_nb_days
        /\ run.result = 50 <=> /\ 20 * run.event.rank > run.event.among_nb_days
                               /\ 10 * run.event.rank <= 3 * run.event.among_nb_days
        /\ run.result = 0 <=> 10 * run.event.rank > 3 * run.event.among_nb_days

\* the second best day of twenty scores 0.8: the ratio is 0.05
C19_SecondBestOfTwentyDays ==
    /\ Scored("DayHistoricalRankEvent")
    /\ run.event.rank = 1
    /\ run.event.among_nb_days = 20
    /\ run.result = 80

-----------------------------------------------------------------------------
(* Properties of the DayHistoricalRankEvent *)

RankRejected(outcome) ==
    /\ IsError(outcome)
    /\ outcome.message = "rank must be strictly smaller than total nb days"

\* the number of days of the series up to and including day
NbDaysUpTo(day, daily_counts) ==
    Cardinality({i \in 1..Len(daily_counts) : daily_counts[i].date <= day})

\* C20: DayHistoricalRankEvent(rank, among_nb_days) raises when
\* rank >= among_nb_days and is constructed otherwise; when build_tweet is called
\* on a day of the series, the candidates hold a DayHistoricalRankEvent with
\* 0 <= rank < among_nb_days, where among_nb_days is the number of days of the
\* series up to and including that day; no call of build_tweet ends with the
\* error of that validation.
C20_RankBelowNbDays ==
    /\ run.type = "DayHistoricalRankEvent()" =>
            IF run.rank >= run.among_nb_days
            THEN RankRejected(run.result)
            ELSE /\ run.result.type = "DayHistoricalRankEvent"
                 /\ run.result.rank = run.rank
                 /\ run.result.among_nb_days = run.among_nb_days
    /\ run.type = "build_tweet()" =>
            /\ ~RankRejected(run.events)
            /\ ~RankRejected(run.event)
            /\ ~RankRejected(run.result)
            /\ DayIsInSeries(run.day, count_history.daily_counts) =>
                    /\ run.events.type = "value"
                    /\ \E i \in 1..Len(run.events.value) :
                            /\ run.events.value[i].type = "DayHistoricalRankEvent"
                            /\ run.events.value[i].rank >= 0
                            /\ run.events.value[i].rank < run.events.value[i].among_nb_days
                            /\ run.events.value[i].among_nb_days
                                    = NbDaysUpTo(run.day, count_history.daily_counts)

\* the second day of a series of three days, below the first: rank 1 among 2 days
C20_WorstOfTwoDaysInSeriesOfThree ==
    /\ run.type = "build_tweet()"
    /\ Len(count_history.daily_counts) = 3
    /\ run.day = count_history.daily_counts[2].date
    /\ run.events.type = "value"
    /\ \E i \in 1..Len(run.events.value) :
            run.events.value[i] = DayHistoricalRankEvent(1, 2)
    /\ run.result.type = "Tweet"

-----------------------------------------------------------------------------
(* Properties of the funny numbers *)

\* one digit followed by zeros only
DigitThenZeros(n) == \E digit \in 0..9, zeros \in 0..6 : n = digit * Pow10(zeros)

\* three or more times the same digit
Repdigit(n) == \E digit \in 1..9, len \in 3..7 : n = digit * ((Pow10(len) - 1) \div 9)

\* C21: _number_is_funny(n) is true exactly when n has three or more decimal
\* digits that are all the same, or is one digit followed by zeros only (a multiple
\* of 10^(d-1), d its number of digits); it is true for 1000, 9999, 1000000, 9000
\* and 777 and false for 31, 319, 1001, 10001 and 999990; a HistoricalTotalEvent
\* scores 0.75 when its total is funny and 0.5 otherwise.
C21_NumberIsFunny ==
    /\ run.type = "_number_is_funny()" =>
            /\ run.result = (Repdigit(run.number) \/ DigitThenZeros(run.number))
            /\ run.number \in {1000, 9999, 1000000, 9000, 777} => run.result
            /\ run.number \in {31, 319, 1001, 10001, 999990} => ~run.result
    /\ Scored("HistoricalTotalEvent") =>
            run.result = IF \/ Repdigit(run.event.historical_total)
                            \/ DigitThenZeros(run.event.historical_total)
                         THEN 75 ELSE 50

\* 999990 is not funny
C21_NotFunny999990 ==
    /\ run.type = "_number_is_funny()"
    /\ run.number = 999990
    /\ run.result = FALSE

-----------------------------------------------------------------------------
(* Properties of the message of a DayHistoricalRankEvent *)

RankMessage == run.type = "default_message()" /\ run.event.type = "DayHistoricalRankEvent"

\* C22: the message of DayHistoricalRankEvent(rank, n) is
\* 'Meilleur jour historique.' for rank 0, '<rank+1>ème meilleur jour historique.'
\* for rank 1 to 10, and 'Top <p>%.' for a rank above 10, where p is the smallest
\* multiple of 5 with p >= 100 * (rank + 1) / n, one of 5, 10, ..., 100; rank 50 of
\* 100 gives 55, rank 140 of 159 gives 90 and rank 99 of 100 gives 100.
C22_RankMessage ==
    RankMessage =>
        /\ IF run.event.rank = 0 THEN run.result = "Meilleur jour historique."
           ELSE IF run.event.rank <= 10
                THEN run.result = Str(run.event.rank + 1) \o "ème meilleur jour historique."
                ELSE \E p \in {5 * k : k \in 1..20} :
                        /\ run.result = "Top " \o Str(p) \o "%."
                        /\ p * run.event.among_nb_days >= 100 * (run.event.rank + 1)
                        /\ (p - 5) * run.event.among_nb_days < 100 * (run.event.rank + 1)
        /\ run.event = DayHistoricalRankEvent(50, 100) => run.result = "Top 55%."
        /\ run.event = DayHistoricalRankEvent(140, 159) => run.result = "Top 90%."
        /\ run.event = DayHistoricalRankEvent(99, 100) => run.result = "Top 100%."

\* rank 140 of 159 days: 88.7 % is written 'Top 90%.'
C22_Rank140Of159 ==
    /\ RankMessage
    /\ run.event.rank = 140
    /\ run.event.among_nb_days = 159
    /\ run.result = "Top 90%."

-----------------------------------------------------------------------------
(* Properties of the month summary *)

\* build_tweet was called on a day of the series
CalledOnDayIn == run.type = "build_tweet()" /\ DayIsInSeries(run.day, count_history.daily_counts)

LastDayOfItsMonth(day) == DayOf(day) = DaysInMonth(YearOf(day), MonthOf(day))

\* the sum of the counts of the entries of a month of a year
MonthSum(month, year, entries) ==
    Sum([i \in 1..Len(entries) |->
            IF MonthOf(entries[i].date) = month /\ YearOf(entries[i].date) = year
            THEN entries[i].count ELSE 0])

\* the (month, year) of the entries
MonthsOf(entries) ==
    {<<MonthOf(entries[i].date), YearOf(entries[i].date)>> : i \in 1..Len(entries)}

\* the number of months of the entries with a greater sum than the one of `month`
NbGreaterMonths(month, year, entries) ==
    Cardinality({m \in MonthsOf(entries) :
                    MonthSum(m[1], m[2], entries) > MonthSum(month, year, entries)})

IsMonthSummaryOf(event, day, entries) ==
    /\ event.month = [month |-> MonthOf(day), year |-> YearOf(day)]
    /\ event.month_count = MonthSum(MonthOf(day), YearOf(day), entries)
    /\ event.month_rank = NbGreaterMonths(MonthOf(day), YearOf(day), entries)

\* C23: for a target day of the series, a MonthSummaryEvent is among the candidate
\* events if and only if the day is the last day of its month (February 29 in a
\* leap year, February 28 otherwise); its month_count is the sum of the counts of
\* that month and its month_rank the number of months with a strictly greater sum
\* (the optimistic rank), both over the days up to the target day.
C23_MonthSummaryOnLastDay ==
    CalledOnDayIn =>
        /\ run.events.type = "value"
        /\ LastDayOfItsMonth(run.day) <=> "MonthSummaryEvent" \in EventTypes(run.events.value)
        /\ \A i \in 1..Len(run.events.value) :
                run.events.value[i].type = "MonthSummaryEvent" =>
                    IsMonthSummaryOf(run.events.value[i], run.day,
                                     UpTo(run.day, count_history.daily_counts))

\* February 28, 2021, with less passages in February than on January 31: February
\* is the second best month, and March 1 is in the series
C23_FebruarySecondBestMonth ==
    /\ CalledOnDayIn
    /\ run.day = Date(2021, 2, 28)
    /\ Len(count_history.daily_counts) = 30
    /\ run.events.type = "value"
    /\ \E i \in 1..Len(run.events.value) :
            run.events.value[i] = MonthSummaryEvent(Month(2, 2021), 2800, 1)

-----------------------------------------------------------------------------
(* Properties of the totals *)

\* the sum of the counts of the entries of a year
YearSum(year, entries) ==
    Sum([i \in 1..Len(entries) |->
            IF YearOf(entries[i].date) = year THEN entries[i].count ELSE 0])

TotalSum(entries) == Sum([i \in 1..Len(entries) |-> entries[i].count])

\* the three total events of day, for the entries up to it
TotalsOf(day, entries) ==
    {HistoricalTotalEvent(TotalSum(entries)),
     MonthTotalEvent(MonthSum(MonthOf(day), YearOf(day), entries), day),
     YearTotalEvent(YearSum(YearOf(day), entries), day)}

\* C24: for a target day of the series, the candidates hold exactly three total
\* events: a HistoricalTotalEvent with the sum of the counts of the days up to the
\* target day, a MonthTotalEvent with the sum of those of the month of the target
\* day, and a YearTotalEvent with the sum of those of its year; so
\* month_total <= year_total <= historical_total.
C24_TotalsUpToTargetDay ==
    CalledOnDayIn =>
        /\ run.events.type = "value"
        /\ {event \in Range(run.events.value) :
                event.type \in {"HistoricalTotalEvent", "MonthTotalEvent", "YearTotalEvent"}}
              = TotalsOf(run.day, UpTo(run.day, count_history.daily_counts))
        /\ \A month_event, year_event, total_event \in Range(run.events.value) :
                /\ month_event.type = "MonthTotalEvent"
                /\ year_event.type = "YearTotalEvent"
                /\ total_event.type = "HistoricalTotalEvent"
                => /\ month_event.month_total <= year_event.year_total
                   /\ year_event.year_total <= total_event.historical_total

\* January 1, 2021 in a series from December 30 on: the total of the year is the
\* count of the day, below the total of the three days
C24_YearTotalBelowHistoricalTotal ==
    /\ CalledOnDayIn
    /\ run.day = Date(2021, 1, 1)
    /\ Len(count_history.daily_counts) = 3
    /\ run.events.type = "value"
    /\ YearTotalEvent(100, run.day) \in Range(run.events.value)
    /\ HistoricalTotalEvent(9012) \in Range(run.events.value)

-----------------------------------------------------------------------------
(* Properties of the order of the event computers *)

\* the class of the events of a computer
EventTypeOf(event_computer) ==
    CASE event_computer = "_historical_record" -> "HistoricalRecordEvent"
      [] event_computer = "_get_day_rank" -> "DayHistoricalRankEvent"
      [] event_computer = "_get_month_summary" -> "MonthSummaryEvent"
      [] event_computer = "_get_year_summary" -> "YearSummaryEvent"
      [] event_computer = "_extract_total_count_event" -> "HistoricalTotalEvent"
      [] event_computer = "_extract_month_total_count_event" -> "MonthTotalEvent"
      [] event_computer = "_extract_year_total_count_event" -> "YearTotalEvent"

\* the events of the computers in the order of _EVENT_COMPUTERS and in the order
\* given: the same events, the same events that can be elected, and each list in
\* the order of its computers
SameCandidates(reference, events, event_computers) ==
    /\ IsError(reference) <=> IsError(events)
    /\ ~IsError(events) =>
        /\ Range(events.value) = Range(reference.value)
        /\ Len(events.value) = Len(reference.value)
        /\ events.value # <<>> =>
                ElectableEvents(events.value) = ElectableEvents(reference.value)
        /\ [i \in 1..Len(events.value) |-> events.value[i].type]
              = SelectSeq([k \in 1..Len(event_computers) |-> EventTypeOf(event_computers[k])],
                          LAMBDA type : type \in EventTypes(reference.value))

\* C25: with the event computers in another order, the candidate events of a series
\* and a target day are the same set, the events that the election can return over
\* the states of the generator are the same set, and the list of the candidates
\* follows the order of the computers, without the events that are absent.
C25_OrderOfComputersHasNoEffect ==
    run.type = "_extract_counting_events()" =>
        SameCandidates(CandidateEvents(run.day, count_history), run.events,
                       run.event_computers)

\* the computers in reverse order on a day of the series: the candidates end with
\* the DayHistoricalRankEvent, or with the HistoricalRecordEvent after it
C25_CandidatesInReverseOrder ==
    /\ run.type = "_extract_counting_events()"
    /\ run.event_computers[1] = "_extract_year_total_count_event"
    /\ run.event_computers[7] = "_historical_record"
    /\ DayIsInSeries(run.day, count_history.daily_counts)
    /\ ~IsError(run.events)
    /\ run.events.value[1].type = "YearTotalEvent"
    /\ run.events.value[Len(run.events.value)].type = "DayHistoricalRankEvent"

-----------------------------------------------------------------------------
(* Properties of the jobs *)

Delivered(post) == 200 <= post.status_code /\ post.status_code < 300

FailurePosts == {post \in Range(run.posts) : post.text = "Failed executing function " \o run.call}

SuccessPosts == {post \in Range(run.posts) : post.text = "Succesfully executed " \o run.call}

\* C26: when the function wrapped by execute_and_publish_output or by
\* _post_exceptions_to_slack raises, the failure message is posted to Slack and no
\* exception propagates to the scheduler.
C26_FailurePostedAndNothingRaised ==
    run.type \in {"execute_and_publish_output()", "_post_exceptions_to_slack()"}
        /\ IsError(run.outcome) =>
        /\ \E post \in FailurePosts : Delivered(post)
        /\ run.raised = None

\* C27: execute_and_publish_output posts exactly one notification, and it matches
\* the outcome of the wrapped function: the failure message only if the function
\* raised, the success message only if it returned, whatever Slack answers.
C27_OneNotificationMatchingOutcome ==
    run.type = "execute_and_publish_output()" =>
        /\ Len(run.posts) = 1
        /\ FailurePosts # {} => IsError(run.outcome)
        /\ SuccessPosts # {} => ~IsError(run.outcome)

-----------------------------------------------------------------------------
(* Properties of the pipeline *)

Dispatch == run.type = "load_data_and_dispatch_tweet()"

\* the series of the file, when it is one
SeriesOfFile == CountHistory(run.days)

\* C28: load_data_and_dispatch_tweet calls handler.handle_tweet at most once, and
\* only with the Tweet built for the resolved target day of the loaded series; when
\* the series cannot be loaded (days that are not consecutive), when the target day
\* is not in the series or when the message is too long, the handler is not called
\* and the error propagates to the caller as it was raised.
C28_HandlerCalledOnceAfterSuccess ==
    Dispatch =>
        /\ Len(run.handled) <= 1
        /\ run.handled # <<>> =>
                /\ run.days # <<>>
                /\ ~IsError(SeriesOfFile)
                /\ run.day.type = "value"
                /\ DayIsInSeries(run.day.value, run.days)
                /\ run.handled[1]
                      = build_tweet(run.day.value, SeriesOfFile, run.today, run.hashtag,
                                    IF run.target_day_desc = [type |-> "str", value |-> "random"]
                                    THEN Advance(run.rng_before) ELSE run.rng_before).result
                /\ run.handled[1].type = "Tweet"
                /\ Len(run.handled[1].content) <= 280
        /\ IsError(SeriesOfFile) => run.handled = <<>> /\ run.raised = SeriesOfFile
        /\ run.day.type = "value" /\ ~DayIsInSeries(run.day.value, run.days) =>
                /\ run.handled = <<>>
                /\ run.raised = _safe_get_count(run.day.value, SeriesOfFile)
        /\ run.handled = <<>> /\ run.day.type = "value"
                /\ DayIsInSeries(run.day.value, run.days) =>
                run.raised = ValueError("Tweet content must contain less than 280 characters.")

\* the message of the last day is too long: the handler is not called
C28_TooLongNotHandled ==
    /\ Dispatch
    /\ run.target_day_desc = [type |-> "str", value |-> "last"]
    /\ run.day.type = "value"
    /\ DayIsInSeries(run.day.value, run.days)
    /\ run.handled = <<>>
    /\ run.raised = ValueError("Tweet content must contain less than 280 characters.")

-----------------------------------------------------------------------------
(* Properties of the score of the elected event *)

\* build_tweet was called and _compute_most_interesting_fact returned an event
Selected == run.type = "build_tweet()" /\ ~IsError(run.event)

\* C29: the event _compute_most_interesting_fact returns has score >= 0.5, a
\* HistoricalTotalEvent of score 0.5 or 0.75 being among the candidates; so, over
\* the outcomes of the random choice, no event of score 0 is returned, on the first
\* day of a month neither a MonthTotalEvent nor a YearTotalEvent is, and no
\* DayHistoricalRankEvent with rank / among_nb_days > 0.30 is.
C29_SelectedScoresHalfOrMore ==
    Selected =>
        /\ \E i \in 1..Len(run.events.value) :
                /\ run.events.value[i].type = "HistoricalTotalEvent"
                /\ _score_event(run.events.value[i]) \in {50, 75}
        /\ _score_event(run.event) >= 50
        /\ \A event \in ElectableEvents(run.events.value) :
                /\ _score_event(event) >= 50
                /\ DayOf(run.day) = 1 => event.type \notin {"MonthTotalEvent", "YearTotalEvent"}
                /\ event.type = "DayHistoricalRankEvent" =>
                        10 * event.rank <= 3 * event.among_nb_days

\* on the first day of a month the candidates hold a MonthTotalEvent, a
\* YearTotalEvent and a DayHistoricalRankEvent with rank / among_nb_days > 0.30,
\* each of score 0, and the HistoricalTotalEvent is returned
C29_TotalSelectedOnFirstDayOfMonth ==
    /\ Selected
    /\ DayOf(run.day) = 1
    /\ {"MonthTotalEvent", "YearTotalEvent"} \subseteq EventTypes(run.events.value)
    /\ \E i \in 1..Len(run.events.value) :
            /\ run.events.value[i].type = "DayHistoricalRankEvent"
            /\ 10 * run.events.value[i].rank > 3 * run.events.value[i].among_nb_days
            /\ _score_event(run.events.value[i]) = 0
    /\ run.event.type = "HistoricalTotalEvent"
    /\ _score_event(run.event) = 50

-----------------------------------------------------------------------------
(* Properties of the record and of the rank of a day *)

\* the DayHistoricalRankEvent among the events
RankEventsOf(events) ==
    {events[i] : i \in {j \in 1..Len(events) : events[j].type = "DayHistoricalRankEvent"}}

\* C30: for a target day of the series, the candidate events hold one
\* DayHistoricalRankEvent, and a HistoricalRecordEvent is among them if and only if
\* that event has rank 0: the two are computed on the series up to the target day,
\* so both hold exactly when no day up to the target day has a greater count.
C30_RecordIffRankZero ==
    CalledOnDayIn =>
        /\ ~IsError(run.events)
        /\ Cardinality(RankEventsOf(run.events.value)) = 1
        /\ \A event \in RankEventsOf(run.events.value) :
                /\ event.among_nb_days = Len(UpTo(run.day, count_history.daily_counts))
                /\ "HistoricalRecordEvent" \in EventTypes(run.events.value) <=> event.rank = 0
                /\ event.rank = 0 <=> DayIsRecord

\* the day ties the maximum of an earlier day, a later day has a greater count, and
\* the day is a record of rank 0
C30_TieWithEarlierMaximum ==
    /\ CalledOnDayIn
    /\ \E i \in 1..Len(count_history.daily_counts) :
            /\ count_history.daily_counts[i].date < run.day
            /\ count_history.daily_counts[i].count = CountOn(run.day, count_history.daily_counts)
    /\ \E i \in 1..Len(count_history.daily_counts) :
            /\ count_history.daily_counts[i].date > run.day
            /\ count_history.daily_counts[i].count > CountOn(run.day, count_history.daily_counts)
    /\ "HistoricalRecordEvent" \in EventTypes(run.events.value)
    /\ \E event \in RankEventsOf(run.events.value) : event.rank = 0

=============================================================================
